---- MODULE Spec2Model ----
(***************************************************************************)
(* A model of the peelo-prompt line editor.  The repository holds two      *)
(* revisions of the same design:                                           *)
(*   "hpp": the class peelo::prompt of include/peelo/prompt.hpp, and       *)
(*   "cpp": the namespace implementation of src/prompt.cpp, with the       *)
(*          linenoise history array.                                       *)
(* The variable impl says which revision a behaviour runs; the editing     *)
(* operations are the same code in both and are modelled once.             *)
(*                                                                         *)
(* Bytes are integers (their character codes), strings are sequences of    *)
(* bytes, and the line buffer is the array char buf[max_line], a function  *)
(* on 0 .. max_line-1 whose never-written cells hold Indet.  max_line is   *)
(* the build's PEELO_PROMPT_max_line / LINENOISE_max_line.                  *)
(***************************************************************************)
EXTENDS Integers, Sequences, FiniteSets, TLC

VARIABLES
  impl,             \* "hpp" or "cpp": the revision that runs
  max_line,         \* PEELO_PROMPT_max_line / LINENOISE_max_line of the build
  multi_line,       \* m_multi_line / multi_line
  hints,            \* a hints callback is registered
  completion,       \* a completion callback is registered
  cols,             \* state.cols, the terminal width of this input() call
  plen,             \* state.prompt.length()
  history,          \* m_history_container / history[0 .. history_len-1], oldest first
  history_max_len,  \* m_history_max_size / history_max_len
  pc,               \* where the caller is: "out", "idle", "completing", "undefined"
  buf,              \* state.buf
  len,              \* state.len
  pos,              \* state.pos
  oldpos,           \* state.oldpos
  maxrows,          \* state.maxrows
  history_index,    \* state.history_index
  cands,            \* complete_line: completions
  ci,               \* complete_line: i
  out,              \* what the last step wrote to the terminal, in order
  view,             \* what the last refresh of the last step rendered
  rd,               \* what handle_esc read in the last step
  ret,              \* the last call's name, its argument and what it returned
  last,             \* the name of the last step
  errno,            \* "EAGAIN" once Ctrl-C has set it, "" before
  env,              \* the process environment: isatty(STDIN_FILENO) and TERM
  tty,              \* the terminal's settings and m_raw_mode, m_original_termios
  tc,               \* the tcsetattr calls of the last step, in order
  scratch,          \* (history of the run) the scratch slot of the current call is in history
  added,            \* (history of the run) the lines handed to add since the history was empty
  nav,              \* (history of the run) the up/down round trip in progress
  before            \* (history of the run) the history when the current call of input()
                    \* began, and whether the call has stepped through the history

vars == <<impl, max_line, multi_line, hints, completion, cols, plen, history,
          history_max_len, pc, buf, len, pos, oldpos, maxrows, history_index,
          cands, ci, out, view, rd, ret, last, errno, env, tty, tc, scratch, added, nav,
          before>>

(***************************************************************************)
(* Bounds of the model.                                                    *)
(***************************************************************************)
\* The size of the line buffer (4096 unless the build sets it otherwise) in
\* the model of the editing operations and in the model of whole calls.
EditMaxLine == 4
SessionMaxLine == 3
\* The largest value handed to set_history_max_size / linenoiseHistorySetMaxLen
\* in the model of the history interface and in the model of whole calls; it
\* is also the maximum the process starts with (100 in the source).
MaxHistory == 2
SessionMaxHistory == 1
\* The widest terminal of the model.
MaxCols == 6

(***************************************************************************)
(* Bytes and keys.                                                         *)
(***************************************************************************)
NUL == 0
Indet == -1
key_ctrl_a == 1
key_ctrl_b == 2
key_ctrl_c == 3
key_ctrl_d == 4
key_ctrl_e == 5
key_ctrl_f == 6
key_ctrl_h == 8
key_tab == 9
key_ctrl_k == 11
key_ctrl_l == 12
key_enter == 13
key_ctrl_n == 14
key_ctrl_p == 16
key_ctrl_t == 20
key_ctrl_u == 21
key_ctrl_w == 23
key_esc == 27
key_backspace == 127
SPACE == 32
CH_A == 97
\* The bytes of the escape sequences.
LBRACKET == 91
LETTER_O == 79
LETTER_A == 65
LETTER_B == 66
LETTER_C == 67
LETTER_D == 68
LETTER_F == 70
LETTER_H == 72
DIGIT_1 == 49
DIGIT_3 == 51
DIGIT_4 == 52
TILDE == 126
NEWLINE == 10
CARRIAGE_RETURN == 13

\* state.buflen after "--state.buflen": the capacity of the line.
buflen == max_line - 1

Min(a, b) == IF a < b THEN a ELSE b

\* The array before anything is written to it.
FreshBuf == [i \in 0 .. max_line - 1 |-> Indet]

\* buf[i]; a read outside the array yields an indeterminate byte.
Rd(b, i) == IF i \in DOMAIN b THEN b[i] ELSE Indet

\* buf[i] = c; a write outside the array is not kept here (the step is
\* flagged out of bounds by its caller).
Wr(b, i, c) == IF i \in DOMAIN b THEN [b EXCEPT ![i] = c] ELSE b

\* std::memmove(b + dst, b + src, n)
memmove(b, dst, src, n) ==
  [i \in DOMAIN b |-> IF dst <= i /\ i < dst + n THEN Rd(b, i - dst + src) ELSE b[i]]

\* std::string(buf, len): the bytes buf[0 .. n-1].
Text(b, n) == [i \in 1 .. n |-> Rd(b, i - 1)]

\* std::strlen(b) for a string that ends inside the array: the index of the
\* first NUL, max_line when the array holds none.
RECURSIVE strlenFrom(_, _)
strlenFrom(b, i) ==
  IF i >= max_line THEN max_line
  ELSE IF b[i] = NUL THEN i
  ELSE strlenFrom(b, i + 1)
strlen(b) == strlenFrom(b, 0)

\* std::strncpy(b, s, n): the first n bytes of s, NUL-padded to n bytes.
strncpy(b, s, n) ==
  [i \in DOMAIN b |-> IF i < n THEN (IF i < Len(s) THEN s[i + 1] ELSE NUL) ELSE b[i]]

\* std::snprintf(b, n, "%s", s): at most n-1 bytes of s and a NUL after them.
snprintf(b, n, s) ==
  LET k == Min(Len(s), n - 1)
  IN [i \in DOMAIN b |-> IF i < k THEN s[i + 1] ELSE IF i = k THEN NUL ELSE b[i]]

\* std::string::c_str() read as a C string: the bytes before the first NUL.
RECURSIVE c_str(_)
c_str(str) ==
  IF str = <<>> \/ Head(str) = NUL THEN <<>> ELSE <<Head(str)>> \o c_str(Tail(str))

(***************************************************************************)
(* The editing state.  The operations below take and return a record s:    *)
(*   buf, len, pos, oldpos, maxrows, history_index : struct state          *)
(*   history : the history ring                                            *)
(*   out     : what has been written to the terminal during the step       *)
(*   view    : what the last refresh of the step rendered: the renderer    *)
(*             (mode), the bytes of buf it wrote (slice) and how many      *)
(*             bytes of buf it dropped before them (start), the column it  *)
(*             put the cursor at (col), the hint it appended (hint),       *)
(*             whether it wrote the newline of a full last row (newline),  *)
(*             the rows it counted (rows), and the length and cursor it    *)
(*             ended with after sliding its window (wlen, wpos)            *)
(*   rd      : the bytes handle_esc has read during the step (bytes) and   *)
(*             whether one of its reads returned -1 (failed)               *)
(*   moved   : edit_history_next has been called during the step           *)
(*   ub      : the step read or wrote outside buf, or read a byte that     *)
(*             was never written (undefined behaviour)                     *)
(*   status  : "run" while edit() loops, "esc" when handle_esc reads on,   *)
(*             "line" / "none" when edit() has returned a line / nothing   *)
(*   eagain  : errno was set to EAGAIN                                     *)
(***************************************************************************)
Emit(s, e) == [s EXCEPT !.out = Append(@, e)]

\* The cells lo .. hi-1 are all inside buf and all written.
Defined(b, lo, hi) == \A i \in lo .. hi - 1 : i \in DOMAIN b /\ b[i] # Indet

NoHint == [style |-> FALSE, text |-> <<>>]
NoRead == [bytes |-> <<>>, failed |-> FALSE]
NoView == [mode |-> "none", start |-> 0, slice |-> <<>>, col |-> 0, hint |-> NoHint,
           newline |-> FALSE, rows |-> 0, wlen |-> 0, wpos |-> 0]

\* The hints callback registered in the model: no hint for the empty line, a
\* bold hint wider than any terminal for a line of one byte, a plain hint of
\* one byte for a line of two, a coloured hint of two bytes for longer lines.
hints_callback(text) ==
  CASE Len(text) = 0 -> [some |-> FALSE, value |-> <<>>, col |-> "none", bold |-> FALSE]
    [] Len(text) = 1 -> [some |-> TRUE, value |-> [i \in 1 .. MaxCols + 1 |-> CH_A],
                         col |-> "none", bold |-> TRUE]
    [] Len(text) = 2 -> [some |-> TRUE, value |-> <<CH_A>>, col |-> "none", bold |-> FALSE]
    [] OTHER         -> [some |-> TRUE, value |-> <<CH_A, CH_A>>, col |-> "red", bold |-> FALSE]

\* show_hints with the hint appended whole.
show_hints_untruncated(s) ==
  IF ~hints \/ plen + s.len >= cols THEN NoHint
  ELSE LET h == hints_callback(IF impl = "hpp" THEN Text(s.buf, s.len)
                                               ELSE c_str(Text(s.buf, max_line)))
       IN IF ~h.some THEN NoHint
          ELSE [style |-> h.col # "none" \/ h.bold, text |-> h.value]

\* show_hints / refreshShowHints: the styling sequence and the bytes of the
\* hint appended to the line.  The callback is handed std::string(buf, len)
\* (prompt.hpp) or buf as a C string (prompt.cpp).
show_hints(s) ==
  IF ~hints \/ plen + s.len >= cols THEN NoHint
  ELSE LET h == hints_callback(IF impl = "hpp" THEN Text(s.buf, s.len)
                                               ELSE c_str(Text(s.buf, max_line)))
           hintmaxlen == cols - (plen + s.len)
           hintlen    == IF Len(h.value) > hintmaxlen THEN hintmaxlen ELSE Len(h.value)
       IN IF ~h.some THEN NoHint
          ELSE [style |-> h.col # "none" \/ h.bold, text |-> SubSeq(h.value, 1, hintlen)]

\* refresh_single_line, the window: the two loops over the local copies of
\* buf (as an offset), len and pos.  len and pos are std::size_t: a copy
\* decremented below 0 wraps around, and is kept here as the negative number
\* n that stands for 2^64 + n, so that sums and differences are those of
\* 64-bit unsigned arithmetic and only the comparisons need care.
\* The size_t value a is huge: it has wrapped around below 0.
Wrapped(a) == a < 0

\* a >= b and a > b on size_t values.
size_ge(a, b) == IF Wrapped(a) = Wrapped(b) THEN a >= b ELSE Wrapped(a)
size_gt(a, b) == IF Wrapped(a) = Wrapped(b) THEN a > b ELSE Wrapped(a)

\* The first loop of the window leaving the cursor on the column cols.
RECURSIVE SlideStartLate(_)
SlideStartLate(w) ==
  IF plen + w.pos > cols
  THEN SlideStartLate([start |-> w.start + 1, len |-> w.len - 1, pos |-> w.pos - 1])
  ELSE w

RECURSIVE SlideStart(_)
SlideStart(w) ==
  IF size_ge(plen + w.pos, cols)
  THEN SlideStart([start |-> w.start + 1, len |-> w.len - 1, pos |-> w.pos - 1])
  ELSE w
RECURSIVE TrimEnd(_)
TrimEnd(w) ==
  IF Wrapped(plen + w.len)
  THEN \* the loop runs until the sum has come down to cols
       [w EXCEPT !.len = cols - plen]
  ELSE IF size_gt(plen + w.len, cols) THEN TrimEnd([w EXCEPT !.len = @ - 1]) ELSE w
Window(s) == TrimEnd(SlideStart([start |-> 0, len |-> s.len, pos |-> s.pos]))

refresh_single_line(s) ==
  LET w == Window(s)
  IN [Emit(s, "refresh") EXCEPT
        !.view = [mode  |-> "single",
                  start |-> w.start,
                  slice |-> [i \in 1 .. w.len |-> Rd(s.buf, w.start + i - 1)],
                  col   |-> w.pos + plen,
                  hint  |-> show_hints(s),
                  newline |-> FALSE,
                  rows  |-> 0,
                  wlen  |-> w.len,
                  wpos  |-> w.pos],
        !.ub = @ \/ Wrapped(w.len) \/ ~Defined(s.buf, w.start, w.start + w.len)]

refresh_multi_line(s) ==
  LET rows    == (plen + s.len + cols - 1) \div cols
      max1    == IF rows > s.maxrows THEN rows ELSE s.maxrows
      newline == s.pos # 0 /\ s.pos = s.len /\ (s.pos + plen) % cols = 0
      max2    == IF newline /\ rows + 1 > max1 THEN rows + 1 ELSE max1
  IN [Emit(s, "refresh") EXCEPT
        !.view    = [mode  |-> "multi",
                     start |-> 0,
                     slice |-> Text(s.buf, s.len),
                     col   |-> (plen + s.pos) % cols,
                     hint  |-> show_hints(s),
                     newline |-> newline,
                     rows  |-> IF newline THEN rows + 1 ELSE rows,
                     wlen  |-> s.len,
                     wpos  |-> s.pos],
        !.maxrows = max2,
        !.oldpos  = s.pos,
        !.ub      = @ \/ ~Defined(s.buf, 0, s.len)]

refresh(s) == IF multi_line THEN refresh_multi_line(s) ELSE refresh_single_line(s)

\* insert with the test for room off by one.
insert_off_by_one(s, c, wok) ==
  IF s.len <= buflen
  THEN refresh([s EXCEPT
         !.buf = Wr(Wr(memmove(@, s.pos + 1, s.pos, s.len - s.pos), s.pos, c),
                    s.len + 1, NUL),
         !.len = @ + 1,
         !.pos = @ + 1])
  ELSE s

\* insert that redraws the line when there is no room.
insert_redraw_when_full(s, c, wok) ==
  IF s.len < buflen
  THEN refresh([s EXCEPT
         !.buf = Wr(Wr(memmove(@, s.pos + 1, s.pos, s.len - s.pos), s.pos, c),
                    s.len + 1, NUL),
         !.len = @ + 1,
         !.pos = @ + 1])
  ELSE refresh(s)

\* The write at the end of a refresh, whose result is not looked at: when it
\* fails (~wok) the line is not redrawn and nothing else differs.
write_unchecked(s, wok) ==
  IF wok THEN s
  ELSE [s EXCEPT !.out = [i \in DOMAIN @ |-> IF @[i] = "refresh" THEN "refresh_failed"
                                                               ELSE @[i]]]

\* A refresh whose failing write makes insert return false.
refresh_checked(s, wok) ==
  IF wok THEN s ELSE [write_unchecked(s, wok) EXCEPT !.status = "none"]

\* insert taking the fast path also when the line fills the row.
insert_fast_at_width(s, c, wok) ==
  IF s.len < buflen
  THEN IF s.len = s.pos
       THEN LET s1 == [s EXCEPT !.buf = Wr(Wr(@, s.pos, c), s.len + 1, NUL),
                                !.pos = @ + 1,
                                !.len = @ + 1]
            IN IF ~multi_line /\ plen + s1.len <= cols /\ ~hints
               THEN IF wok THEN Emit(s1, "byte")
                           ELSE [s1 EXCEPT !.status = "none"]
               ELSE write_unchecked(refresh(s1), wok)
       ELSE write_unchecked(refresh([s EXCEPT
              !.buf = Wr(Wr(memmove(@, s.pos + 1, s.pos, s.len - s.pos), s.pos, c),
                         s.len + 1, NUL),
              !.len = @ + 1,
              !.pos = @ + 1]), wok)
  ELSE s

\* insert returning false when the write of its refresh fails.
insert_checking_refresh(s, c, wok) ==
  IF s.len < buflen
  THEN IF s.len = s.pos
       THEN LET s1 == [s EXCEPT !.buf = Wr(Wr(@, s.pos, c), s.len + 1, NUL),
                                !.pos = @ + 1,
                                !.len = @ + 1]
            IN IF ~multi_line /\ plen + s1.len < cols /\ ~hints
               THEN IF wok THEN Emit(s1, "byte")
                           ELSE [s1 EXCEPT !.status = "none"]
               ELSE refresh_checked(refresh(s1), wok)
       ELSE refresh_checked(refresh([s EXCEPT
              !.buf = Wr(Wr(memmove(@, s.pos + 1, s.pos, s.len - s.pos), s.pos, c),
                         s.len + 1, NUL),
              !.len = @ + 1,
              !.pos = @ + 1]), wok)
  ELSE s

\* insert(state, c); wok: the write of the step succeeds (the single byte of
\* the fast path, or the write of refresh).  The result's status is "none"
\* when insert returns false.
insert(s, c, wok) ==
  IF s.len < buflen
  THEN IF s.len = s.pos
       THEN LET s1 == [s EXCEPT !.buf = Wr(Wr(@, s.pos, c), s.len + 1, NUL),
                                !.pos = @ + 1,
                                !.len = @ + 1]
            IN IF ~multi_line /\ plen + s1.len < cols /\ ~hints
               THEN IF wok THEN Emit(s1, "byte")
                           ELSE [s1 EXCEPT !.status = "none"]
               ELSE write_unchecked(refresh(s1), wok)
       ELSE write_unchecked(refresh([s EXCEPT
              !.buf = Wr(Wr(memmove(@, s.pos + 1, s.pos, s.len - s.pos), s.pos, c),
                         s.len + 1, NUL),
              !.len = @ + 1,
              !.pos = @ + 1]), wok)
  ELSE s

move_left(s) == IF s.pos > 0 THEN refresh([s EXCEPT !.pos = @ - 1]) ELSE s

move_right(s) == IF s.pos # s.len THEN refresh([s EXCEPT !.pos = @ + 1]) ELSE s

move_home(s) == IF s.pos # 0 THEN refresh([s EXCEPT !.pos = 0]) ELSE s

move_end(s) == IF s.pos # s.len THEN refresh([s EXCEPT !.pos = s.len]) ELSE s

delete_next_char(s) ==
  IF s.len > 0 /\ s.pos < s.len
  THEN refresh([s EXCEPT
         !.buf = Wr(memmove(@, s.pos, s.pos + 1, s.len - s.pos - 1), s.len - 1, NUL),
         !.len = @ - 1,
         !.ub  = @ \/ s.len > max_line])
  ELSE s

\* delete_previous_char without the decrement of the cursor.
delete_previous_keeping_cursor(s) ==
  IF s.pos > 0 /\ s.len > 0
  THEN refresh([s EXCEPT
         !.buf = Wr(memmove(@, s.pos - 1, s.pos, s.len - s.pos), s.len - 1, NUL),
         !.len = @ - 1,
         !.ub  = @ \/ s.len > max_line])
  ELSE s

delete_previous_char(s) ==
  IF s.pos > 0 /\ s.len > 0
  THEN refresh([s EXCEPT
         !.buf = Wr(memmove(@, s.pos - 1, s.pos, s.len - s.pos), s.len - 1, NUL),
         !.pos = @ - 1,
         !.len = @ - 1,
         !.ub  = @ \/ s.len > max_line])
  ELSE s

\* The two loops of delete_previous_word: the index the cursor stops at.
RECURSIVE SkipSpaces(_, _)
SkipSpaces(b, p) == IF p > 0 /\ Rd(b, p - 1) = SPACE THEN SkipSpaces(b, p - 1) ELSE p
RECURSIVE SkipWord(_, _)
SkipWord(b, p) == IF p > 0 /\ Rd(b, p - 1) # SPACE THEN SkipWord(b, p - 1) ELSE p

\* delete_previous_word without its first loop: the spaces left of the cursor
\* are not skipped.
delete_word_without_spaces(s) ==
  LET old_pos == s.pos
      p       == SkipWord(s.buf, s.pos)
      diff    == old_pos - p
  IN refresh([s EXCEPT
       !.buf = memmove(@, p, old_pos, s.len - old_pos + 1),
       !.pos = p,
       !.len = @ - diff,
       !.ub  = @ \/ s.len >= max_line])

delete_previous_word(s) ==
  LET old_pos == s.pos
      p       == SkipWord(s.buf, SkipSpaces(s.buf, s.pos))
      diff    == old_pos - p
  IN refresh([s EXCEPT
       !.buf = memmove(@, p, old_pos, s.len - old_pos + 1),
       !.pos = p,
       !.len = @ - diff,
       !.ub  = @ \/ s.len >= max_line])

\* transpose_characters without the test of the last byte: the cursor always
\* advances.
transpose_always_advancing(s) ==
  IF s.pos > 0 /\ s.pos < s.len
  THEN refresh([s EXCEPT
         !.buf = Wr(Wr(@, s.pos - 1, Rd(s.buf, s.pos)), s.pos, Rd(s.buf, s.pos - 1)),
         !.pos = @ + 1,
         !.ub  = @ \/ s.pos >= max_line])
  ELSE s

transpose_characters(s) ==
  IF s.pos > 0 /\ s.pos < s.len
  THEN refresh([s EXCEPT
         !.buf = Wr(Wr(@, s.pos - 1, Rd(s.buf, s.pos)), s.pos, Rd(s.buf, s.pos - 1)),
         !.pos = IF s.pos # s.len - 1 THEN @ + 1 ELSE @,
         !.ub  = @ \/ s.pos >= max_line])
  ELSE s

\* kill_line removing only the bytes left of the cursor.
kill_line_keeping_tail(s) ==
  refresh([s EXCEPT !.buf = memmove(@, 0, s.pos, s.len - s.pos + 1),
                    !.len = @ - s.pos,
                    !.pos = 0])

kill_line(s) ==
  refresh([s EXCEPT !.buf = Wr(@, 0, NUL), !.pos = 0, !.len = 0])

\* kill_end_of_line redrawing only when there is something right of the
\* cursor.
kill_end_when_nonempty(s) ==
  IF s.pos < s.len
  THEN refresh([s EXCEPT !.buf = Wr(@, s.pos, NUL), !.len = s.pos,
                         !.ub = @ \/ s.pos >= max_line])
  ELSE s

kill_end_of_line(s) ==
  refresh([s EXCEPT !.buf = Wr(@, s.pos, NUL), !.len = s.pos,
                    !.ub = @ \/ s.pos >= max_line])

(***************************************************************************)
(* The history ring.                                                       *)
(***************************************************************************)
\* add_to_history without the comparison with the newest entry.
add_without_comparison(h, max, line) ==
  IF max = 0 THEN [history |-> h, ok |-> FALSE]
  ELSE [history |-> Append(IF Len(h) = max THEN Tail(h) ELSE h, line), ok |-> TRUE]

\* prompt::add_to_history: the new container and the value returned.
add_to_history(h, max, line) ==
  IF max = 0 THEN [history |-> h, ok |-> FALSE]
  ELSE IF h # <<>> /\ h[Len(h)] = line THEN [history |-> h, ok |-> FALSE]
  ELSE [history |-> Append(IF Len(h) = max THEN Tail(h) ELSE h, line), ok |-> TRUE]

\* linenoiseHistoryAdd that makes room by dropping the newest entry.
add_dropping_newest(h, max, line) ==
  IF max = 0 THEN [history |-> h, ok |-> FALSE]
  ELSE IF Len(h) # 0 /\ h[Len(h)] = line THEN [history |-> h, ok |-> FALSE]
  ELSE IF Len(h) = max
       THEN [history |-> Append(SubSeq(h, 1, Len(h) - 1), line), ok |-> TRUE]
       ELSE [history |-> Append(h, line), ok |-> TRUE]

\* linenoiseHistoryAdd: the new array and the value returned (1 as TRUE).
linenoiseHistoryAdd(h, max, line) ==
  IF max = 0 THEN [history |-> h, ok |-> FALSE]
  ELSE IF Len(h) # 0 /\ h[Len(h)] = line THEN [history |-> h, ok |-> FALSE]
  ELSE IF Len(h) = max
       THEN [history |-> Append(SubSeq(h, 2, Len(h)), line), ok |-> TRUE]
       ELSE [history |-> Append(h, line), ok |-> TRUE]

\* while (size() > n) pop_front()
RECURSIVE PopFrontTo(_, _)
PopFrontTo(h, n) == IF Len(h) > n THEN PopFrontTo(Tail(h), n) ELSE h

\* set_history_max_size with a single pop_front under the test size() >= size.
set_max_single_pop(h, max, size) ==
  [history |-> IF size = 0 THEN <<>>
               ELSE IF Len(h) >= size /\ h # <<>> THEN Tail(h) ELSE h,
   max     |-> size,
   ok      |-> TRUE]

\* prompt::set_history_max_size: the new container and the new maximum.
set_history_max_size(h, max, size) ==
  [history |-> IF size = 0 THEN <<>> ELSE PopFrontTo(h, size),
   max     |-> size,
   ok      |-> TRUE]

\* linenoiseHistorySetMaxLen that copies the oldest entries.
set_max_len_keeping_oldest(h, max, n) ==
  IF n < 1 THEN [history |-> h, max |-> max, ok |-> FALSE]
  ELSE LET tocopy == IF n < Len(h) THEN n ELSE Len(h)
       IN [history |-> SubSeq(h, 1, tocopy), max |-> n, ok |-> TRUE]

\* linenoiseHistorySetMaxLen: the new array, the new maximum and the value
\* returned (1 as TRUE).
linenoiseHistorySetMaxLen(h, max, n) ==
  IF n < 1 THEN [history |-> h, max |-> max, ok |-> FALSE]
  ELSE LET tocopy == IF n < Len(h) THEN n ELSE Len(h)
       IN [history |-> SubSeq(h, Len(h) - tocopy + 1, Len(h)), max |-> n, ok |-> TRUE]

\* prompt::edit_history_next; direction TRUE is "next" (down).
hpp_edit_history_next(s, direction) ==
  LET size == Len(s.history)
  IN IF size < 2 THEN s
     ELSE LET h1  == [s.history EXCEPT ![size] = Text(s.buf, s.len)]
              idx == s.history_index + (IF direction THEN -1 ELSE 1)
              s1  == [s EXCEPT !.history = h1,
                               !.ub = @ \/ ~Defined(s.buf, 0, s.len)]
          IN IF idx < 0 THEN [s1 EXCEPT !.history_index = 0]
             ELSE IF idx >= size THEN [s1 EXCEPT !.history_index = size - 1]
             ELSE LET entry == h1[size - idx]
                      b1    == Wr(strncpy(s.buf, c_str(entry), buflen), buflen - 1, NUL)
                  IN refresh([s1 EXCEPT !.history_index = idx,
                                        !.buf = b1,
                                        !.len = strlen(b1),
                                        !.pos = strlen(b1)])

\* edit_history_next of prompt.cpp.
cpp_edit_history_next(s, direction) ==
  LET history_len == Len(s.history)
  IN IF history_len < 2 THEN s
     ELSE LET n   == strlen(s.buf)
              h1  == [s.history EXCEPT ![history_len - s.history_index] = Text(s.buf, n)]
              idx == s.history_index + (IF direction THEN -1 ELSE 1)
              s1  == [s EXCEPT !.history = h1,
                               !.ub = @ \/ ~Defined(s.buf, 0, n + 1)]
          IN IF idx < 0 THEN [s1 EXCEPT !.history_index = 0]
             ELSE IF idx >= history_len THEN [s1 EXCEPT !.history_index = history_len - 1]
             ELSE LET entry == h1[history_len - idx]
                      b1    == Wr(strncpy(s.buf, c_str(entry), buflen), buflen - 1, NUL)
                  IN refresh([s1 EXCEPT !.history_index = idx,
                                        !.buf = b1,
                                        !.len = strlen(b1),
                                        !.pos = strlen(b1)])

edit_history_next(s, direction) ==
  IF impl = "hpp" THEN hpp_edit_history_next([s EXCEPT !.moved = TRUE], direction)
                  ELSE cpp_edit_history_next([s EXCEPT !.moved = TRUE], direction)

(***************************************************************************)
(* edit(): the key dispatcher.                                             *)
(***************************************************************************)
\* case key::enter of prompt::edit.
hpp_enter(s) ==
  LET s1 == [s EXCEPT !.history = IF @ # <<>> THEN SubSeq(@, 1, Len(@) - 1) ELSE @]
      s2 == IF multi_line THEN move_end(s1) ELSE s1
      s3 == IF hints THEN refresh(s2) ELSE s2
  IN [s3 EXCEPT !.status = "line", !.ub = @ \/ ~Defined(s3.buf, 0, s3.len)]

\* case key_enter of edit in prompt.cpp: std::free(history[--history_len]).
cpp_enter(s) ==
  LET s1 == [s EXCEPT !.history = IF @ # <<>> THEN SubSeq(@, 1, Len(@) - 1) ELSE @,
                      !.ub = @ \/ s.history = <<>>]
      s2 == IF multi_line THEN move_end(s1) ELSE s1
      s3 == IF hints THEN refresh(s2) ELSE s2
  IN [s3 EXCEPT !.status = "line", !.ub = @ \/ ~Defined(s3.buf, 0, s3.len)]

\* case key::ctrl_d that sets errno on an empty line as Ctrl-C does.
ctrl_d_interrupting(s) ==
  IF s.len > 0 THEN delete_next_char(s)
  ELSE [s EXCEPT !.history = IF @ # <<>> THEN SubSeq(@, 1, Len(@) - 1) ELSE @,
                 !.eagain = TRUE,
                 !.status = "none"]

\* case key::ctrl_d: delete_next_char, or end of file on an empty line.
ctrl_d(s) ==
  IF s.len > 0 THEN delete_next_char(s)
  ELSE [s EXCEPT !.history = IF @ # <<>> THEN SubSeq(@, 1, Len(@) - 1) ELSE @,
                 !.ub = @ \/ (impl = "cpp" /\ s.history = <<>>),
                 !.status = "none"]

\* std::isdigit
isdigit(b) == b \in 48 .. 57

\* handle_esc; seq holds the bytes the terminal delivers next, in order: a
\* read past its end returns -1.  The reads: two, and a third one after
\* '[' and a digit.
EscReads(seq) ==
  IF Len(seq) >= 2 /\ seq[1] = LBRACKET /\ isdigit(seq[2]) THEN 3 ELSE 2

\* handle_esc acting on an extended sequence whatever its last byte is.
handle_esc_any_terminator(s0, seq) ==
  LET s == [s0 EXCEPT !.rd = [bytes  |-> SubSeq(seq, 1, Min(EscReads(seq), Len(seq))),
                              failed |-> Len(seq) < EscReads(seq)]]
  IN
  IF Len(seq) < 2 THEN s
  ELSE IF seq[1] = LBRACKET
  THEN IF isdigit(seq[2])
       THEN IF Len(seq) < 3 THEN s
            ELSE CASE seq[2] = DIGIT_3 -> delete_next_char(s)
                   [] seq[2] = DIGIT_1 /\ impl = "hpp" -> move_home(s)
                   [] seq[2] = DIGIT_4 /\ impl = "hpp" -> move_end(s)
                   [] OTHER -> s
       ELSE CASE seq[2] = LETTER_A -> edit_history_next(s, FALSE)
              [] seq[2] = LETTER_B -> edit_history_next(s, TRUE)
              [] seq[2] = LETTER_C -> move_right(s)
              [] seq[2] = LETTER_D -> move_left(s)
              [] seq[2] = LETTER_H -> move_home(s)
              [] seq[2] = LETTER_F -> move_end(s)
              [] OTHER -> s
  ELSE IF seq[1] = LETTER_O
  THEN CASE seq[2] = LETTER_H -> move_home(s)
         [] seq[2] = LETTER_F -> move_end(s)
         [] OTHER -> s
  ELSE s

handle_esc(s0, seq) ==
  LET s == [s0 EXCEPT !.rd = [bytes  |-> SubSeq(seq, 1, Min(EscReads(seq), Len(seq))),
                              failed |-> Len(seq) < EscReads(seq)]]
  IN
  IF Len(seq) < 2 THEN s
  ELSE IF seq[1] = LBRACKET
  THEN IF isdigit(seq[2])
       THEN IF Len(seq) < 3 THEN s
            ELSE IF seq[3] = TILDE
            THEN CASE seq[2] = DIGIT_3 -> delete_next_char(s)
                   [] seq[2] = DIGIT_1 /\ impl = "hpp" -> move_home(s)
                   [] seq[2] = DIGIT_4 /\ impl = "hpp" -> move_end(s)
                   [] OTHER -> s
            ELSE s
       ELSE CASE seq[2] = LETTER_A -> edit_history_next(s, FALSE)
              [] seq[2] = LETTER_B -> edit_history_next(s, TRUE)
              [] seq[2] = LETTER_C -> move_right(s)
              [] seq[2] = LETTER_D -> move_left(s)
              [] seq[2] = LETTER_H -> move_home(s)
              [] seq[2] = LETTER_F -> move_end(s)
              [] OTHER -> s
  ELSE IF seq[1] = LETTER_O
  THEN CASE seq[2] = LETTER_H -> move_home(s)
         [] seq[2] = LETTER_F -> move_end(s)
         [] OTHER -> s
  ELSE s

\* The switch of edit() on the byte c; wok: the write of insert's fast path
\* succeeds.
Dispatch(s, c, wok) ==
  CASE c = key_enter     -> IF impl = "hpp" THEN hpp_enter(s) ELSE cpp_enter(s)
    [] c = key_ctrl_c    -> [s EXCEPT !.status = "none", !.eagain = TRUE]
    [] c = key_backspace -> delete_previous_char(s)
    [] c = key_ctrl_h    -> delete_previous_char(s)
    [] c = key_ctrl_d    -> ctrl_d(s)
    [] c = key_ctrl_t    -> transpose_characters(s)
    [] c = key_ctrl_b    -> move_left(s)
    [] c = key_ctrl_f    -> move_right(s)
    [] c = key_ctrl_p    -> edit_history_next(s, FALSE)
    [] c = key_ctrl_n    -> edit_history_next(s, TRUE)
    [] c = key_esc       -> [s EXCEPT !.status = "esc"]
    [] c = key_ctrl_u    -> kill_line(s)
    [] c = key_ctrl_k    -> kill_end_of_line(s)
    [] c = key_ctrl_a    -> move_home(s)
    [] c = key_ctrl_e    -> move_end(s)
    [] c = key_ctrl_l    -> refresh(Emit(s, "clear"))
    [] c = key_ctrl_w    -> delete_previous_word(s)
    [] OTHER             -> insert(s, c, wok)

\* The catch of edit() returning nothing when complete_line failed.
after_complete_no_input(s, c, wok) ==
  IF c < 0 THEN [s EXCEPT !.status = "none"]
  ELSE IF c = 0 THEN s
  ELSE Dispatch(s, c, wok)

\* The catch of edit() on what complete_line returned, converted to char:
\* negative returns the buffer, 0 reads the next key, anything else is
\* dispatched.
AfterComplete(s, c, wok) ==
  IF c < 0 THEN [s EXCEPT !.status = "line", !.ub = @ \/ ~Defined(s.buf, 0, s.len)]
  ELSE IF c = 0 THEN s
  ELSE Dispatch(s, c, wok)

\* complete_line, "Show completion or original buffer": the preview of
\* candidate i (the state is saved, overwritten, refreshed and restored), or
\* a refresh of the buffer itself when i is past the last candidate.
ShowCompletion(s, cs, i) ==
  IF i < Len(cs)
  THEN LET comp == cs[i + 1]
           s1   == refresh([s EXCEPT !.len = Len(comp),
                                     !.pos = Len(comp),
                                     !.buf = strncpy(@, comp, buflen)])
       IN [s1 EXCEPT !.len = s.len,
                     !.pos = s.pos,
                     !.buf = strncpy(@, c_str(Text(s.buf, buflen)), buflen)]
  ELSE refresh(s)

\* complete_line, "Update buffer and return": candidate i becomes the line.
CommitCompletion(s, cs, i) ==
  IF i < Len(cs)
  THEN [s EXCEPT !.buf = snprintf(@, buflen, cs[i + 1]),
                 !.len = Len(cs[i + 1]),
                 !.pos = Len(cs[i + 1])]
  ELSE s

(***************************************************************************)
(* The terminal and the ways of input() around the editor.                 *)
(* A struct termios is a record: flags, the flags that are set, and the    *)
(* control characters VMIN and VTIME.  The record tty holds the settings   *)
(* the terminal has (termios) and the members m_raw_mode,                  *)
(* m_original_termios (and atexit_registered of prompt.cpp).               *)
(***************************************************************************)
\* The flags enable_raw_mode clears.
RawCleared ==
  {"BRKINT", "ICRNL", "INPCK", "ISTRIP", "IXON", "OPOST", "ECHO", "ICANON", "IEXTEN", "ISIG"}

\* enable_raw_mode: the settings raw made from the settings read.
raw(original) ==
  [flags |-> (original.flags \ RawCleared) \cup {"CS8"}, VMIN |-> 1, VTIME |-> 0]

\* m_original_termios before tcgetattr has filled it.
NoTermios == [flags |-> {}, VMIN |-> 0, VTIME |-> 0]

\* enable_raw_mode; isatty, getok, setok: what isatty, tcgetattr and
\* tcsetattr answer.
enable_raw_mode(t, isatty, getok, setok) ==
  IF ~isatty THEN [tty |-> t, tc |-> <<>>, ok |-> FALSE]
  ELSE LET t1 == IF impl = "cpp" THEN [t EXCEPT !.atexit_registered = TRUE] ELSE t
       IN IF ~getok THEN [tty |-> t1, tc |-> <<>>, ok |-> FALSE]
          ELSE LET t2 == [t1 EXCEPT !.original_termios = t.termios]
               IN IF ~setok
                  THEN [tty |-> t2,
                        tc  |-> <<[termios |-> raw(t.termios), ok |-> FALSE]>>,
                        ok  |-> FALSE]
                  ELSE [tty |-> [t2 EXCEPT !.termios = raw(t.termios), !.raw_mode = TRUE],
                        tc  |-> <<[termios |-> raw(t.termios), ok |-> TRUE]>>,
                        ok  |-> TRUE]

\* disable_raw_mode that sets the terminal whether or not raw mode is on.
disable_unguarded(t) ==
  [tty |-> [t EXCEPT !.termios = t.original_termios, !.raw_mode = FALSE],
   tc  |-> <<[termios |-> t.original_termios, ok |-> TRUE]>>]

\* disable_raw_mode
disable_raw_mode(t) ==
  IF t.raw_mode
  THEN [tty |-> [t EXCEPT !.termios = t.original_termios, !.raw_mode = FALSE],
        tc  |-> <<[termios |-> t.original_termios, ok |-> TRUE]>>]
  ELSE [tty |-> t, tc |-> <<>>]

\* std::tolower in the "C" locale
tolower(b) == IF b \in 65 .. 90 THEN b + 32 ELSE b

\* strcasecmp(a, b) of two C strings
RECURSIVE strcasecmp(_, _)
strcasecmp(a, b) ==
  LET ca == IF a = <<>> THEN NUL ELSE tolower(Head(a))
      cb == IF b = <<>> THEN NUL ELSE tolower(Head(b))
  IN IF ca # cb \/ ca = NUL THEN ca - cb ELSE strcasecmp(Tail(a), Tail(b))

\* The array unsupported_term: "dumb", "cons25", "emacs".
unsupported_term ==
  << <<100, 117, 109, 98>>, <<99, 111, 110, 115, 50, 53>>, <<101, 109, 97, 99, 115>> >>

\* is_unsupported_term that compares with strcmp.
is_unsupported_term_exact(e) ==
  /\ e.has_term
  /\ \E i \in 1 .. Len(unsupported_term) : e.TERM = unsupported_term[i]

\* is_unsupported_term; e.has_term: getenv("TERM") is not NULL.
is_unsupported_term(e) ==
  /\ e.has_term
  /\ \E i \in 1 .. Len(unsupported_term) : strcasecmp(e.TERM, unsupported_term[i]) = 0

\* input_no_tty: the bytes of stdin (data, end of file after them) up to the
\* first newline; nothing when stdin is at its end.
RECURSIVE UpToNewline(_)
UpToNewline(data) ==
  IF data = <<>> \/ Head(data) = NEWLINE THEN <<>>
  ELSE <<Head(data)>> \o UpToNewline(Tail(data))
input_no_tty(data) ==
  IF data = <<>> THEN [ok |-> FALSE, text |-> <<>>]
  ELSE [ok |-> TRUE, text |-> UpToNewline(data)]

\* std::fgets(buf, n, stdin): at most n-1 bytes of stdin, through the first
\* newline.
fgets(data, n) ==
  LET line == UpToNewline(data)
      k    == IF Len(line) < Len(data) THEN Len(line) + 1 ELSE Len(line)
  IN SubSeq(data, 1, Min(k, n - 1))

\* input(): the loop that drops the trailing '\n' and '\r' of buf.
RECURSIVE StripLineEnd(_)
StripLineEnd(str) ==
  IF str # <<>> /\ str[Len(str)] \in {NEWLINE, CARRIAGE_RETURN}
  THEN StripLineEnd(SubSeq(str, 1, Len(str) - 1))
  ELSE str

\* input() on an unsupported terminal: fgets and the strip.
input_unsupported(data) ==
  IF data = <<>> THEN [ok |-> FALSE, text |-> <<>>]
  ELSE [ok |-> TRUE, text |-> StripLineEnd(c_str(fgets(data, max_line)))]

(***************************************************************************)
(* Inputs of the model.                                                    *)
(***************************************************************************)
\* The string of n bytes 'a'.
As(n) == [i \in 1 .. n |-> CH_A]

\* The lines handed to add: one more than fills the largest history.
Lines == {As(n) : n \in 0 .. MaxHistory + 1}
SessionLines == {As(n) : n \in 0 .. SessionMaxHistory}

\* What the completion callback may yield: nothing, a short candidate, one
\* as long as the capacity, or a short one followed by one longer than the
\* capacity.
CandLists == {<<>>, <<As(1)>>, <<As(buflen)>>, <<As(1), As(max_line)>>}

\* The keys pressed during an input() call of the full model.
SessionKeys == {CH_A, key_enter, key_ctrl_c, key_ctrl_d, key_ctrl_p, key_ctrl_n,
                key_backspace, key_tab}

\* The bytes typed in the model of the editing operations.
EditChars == {CH_A, SPACE}

\* The terminal widths and prompt lengths; the prompt is shorter than the
\* terminal is wide.
Widths == {MaxCols - 2, MaxCols}
PromptLens == {2}

\* The settings the terminal has when the process starts: the usual ones, and
\* the same without echo.
Sane ==
  [flags |-> {"BRKINT", "ICRNL", "IXON", "OPOST", "ECHO", "ICANON", "IEXTEN", "ISIG"},
   VMIN |-> 4, VTIME |-> 0]
NoEcho == [Sane EXCEPT !.flags = @ \ {"ECHO"}]
Settings == {Sane, NoEcho}

\* The values of TERM: "xterm", "dumb", "DUMB", "Emacs", "cons25", "dum", and
\* TERM not set.
Xterm == [isatty |-> TRUE, has_term |-> TRUE, TERM |-> <<120, 116, 101, 114, 109>>]
Envs ==
  {[isatty |-> a, has_term |-> TRUE, TERM |-> s] :
     a \in BOOLEAN,
     s \in {Xterm.TERM, <<100, 117, 109, 98>>, <<68, 85, 77, 66>>,
            <<69, 109, 97, 99, 115>>, <<99, 111, 110, 115, 50, 53>>,
            <<100, 117, 109>>}}
    \cup {[isatty |-> a, has_term |-> FALSE, TERM |-> <<>>] : a \in BOOLEAN}

\* What stdin holds when it is read without the editor: nothing, lines with
\* and without their end, and a line longer than the buffer.
StdinData ==
  {<<>>, <<NEWLINE>>, As(1), <<CH_A, NEWLINE>>, <<CH_A, CARRIAGE_RETURN, NEWLINE>>,
   <<CH_A, NEWLINE, CH_A>>, As(max_line + 1)}

\* The history may outgrow its maximum (see EditStart); the model stops
\* adding at this size.
HistCap == SessionMaxHistory + 2

(***************************************************************************)
(* The state machine.                                                      *)
(***************************************************************************)
\* ret also holds two facts about the calls of the history interface: was,
\* the number of entries before the call, and rep, whether the call repeats
\* the call before it (the same operation with the same argument).
NoRet == [op |-> "", ok |-> FALSE, text |-> <<>>, n |-> 0, was |-> 0, rep |-> FALSE]
NoNav == [phase |-> "none", t |-> <<>>, ups |-> 0, downs |-> 0, n0 |-> 0]
NoAdded == [ok |-> FALSE, lines |-> <<>>]
NoCall == [history |-> <<>>, navigated |-> FALSE]

InitIdle ==
  /\ buf = [FreshBuf EXCEPT ![0] = IF pc = "idle" THEN NUL ELSE Indet]
  /\ len = 0
  /\ pos = 0
  /\ oldpos = 0
  /\ maxrows = 0
  /\ history_index = 0
  /\ cands = <<>>
  /\ ci = 0
  /\ out = <<>>
  /\ ret = NoRet
  /\ last = ""
  /\ errno = ""
  /\ view = NoView
  /\ rd = NoRead
  /\ before = [NoCall EXCEPT !.history = IF pc = "idle" THEN SubSeq(history, 1, Len(history) - 1)
                                                          ELSE <<>>]
  /\ tc = <<>>
  /\ nav = NoNav

\* The terminal has the settings t; a call that is under way has put it
\* into raw mode.
InitTty(t) ==
  tty = IF pc = "out"
        THEN [termios |-> t, raw_mode |-> FALSE, original_termios |-> NoTermios,
              atexit_registered |-> FALSE]
        ELSE [termios |-> raw(t), raw_mode |-> TRUE, original_termios |-> t,
              atexit_registered |-> impl = "cpp"]

\* The process after construction and configuration, before any call.
Init ==
  /\ impl \in {"hpp", "cpp"}
  /\ max_line = SessionMaxLine
  /\ multi_line = FALSE
  /\ hints = FALSE
  /\ cols = MaxCols
  /\ plen = 2
  /\ completion \in BOOLEAN
  /\ history = <<>>
  /\ history_max_len = SessionMaxHistory
  /\ pc = "out"
  /\ InitIdle
  /\ InitTty(Sane)
  /\ env = Xterm
  /\ scratch = FALSE
  /\ added = NoAdded

\* The record the operations work on, at the start of a step.
Cur ==
  [buf |-> buf, len |-> len, pos |-> pos, oldpos |-> oldpos, maxrows |-> maxrows,
   history_index |-> history_index, history |-> history, out |-> <<>>,
   view |-> NoView, rd |-> NoRead, moved |-> FALSE, ub |-> FALSE, status |-> "run", eagain |-> FALSE]

\* The stack frame of edit() is gone.
ResetSession ==
  /\ buf' = FreshBuf
  /\ len' = 0
  /\ pos' = 0
  /\ oldpos' = 0
  /\ maxrows' = 0
  /\ history_index' = 0
  /\ cands' = <<>>
  /\ ci' = 0

\* The step ends in state s: edit() returns (and input_raw leaves raw mode),
\* reads on (at next, and inside
\* complete_line with the candidates cs and the index i), or has run into
\* undefined behaviour.
Finish(s, next, cs, i) ==
  /\ history' = s.history
  /\ out' = s.out
  /\ view' = s.view
  /\ rd' = s.rd
  /\ before' = [before EXCEPT !.navigated = @ \/ s.moved]
  /\ errno' = IF s.eagain THEN "EAGAIN" ELSE errno
  /\ scratch' = IF Len(s.history) < Len(history) THEN FALSE ELSE scratch
  /\ added' = NoAdded
  /\ IF ~s.ub /\ s.status \in {"line", "none"}
     THEN /\ pc' = "out"
          /\ tty' = disable_raw_mode(tty).tty
          /\ tc' = disable_raw_mode(tty).tc
          /\ ret' = [op |-> "input", ok |-> s.status = "line", n |-> 0,
                     was |-> 0, rep |-> FALSE,
                     text |-> IF s.status = "line" THEN Text(s.buf, s.len) ELSE <<>>]
          /\ ResetSession
     ELSE /\ pc' = IF s.ub THEN "undefined"
                   ELSE IF s.status = "esc" THEN "esc1" ELSE next
          /\ tty' = tty
          /\ tc' = <<>>
          /\ ret' = ret
          /\ buf' = s.buf
          /\ len' = s.len
          /\ pos' = s.pos
          /\ oldpos' = s.oldpos
          /\ maxrows' = s.maxrows
          /\ history_index' = s.history_index
          /\ cands' = IF pc' = "completing" THEN cs ELSE <<>>
          /\ ci' = IF pc' = "completing" THEN i ELSE 0

\* The round trip the key c continues or starts: N steps up from the scratch
\* slot, then N steps down.
NavStep(c) ==
  IF c = key_ctrl_p
  THEN IF nav.phase = "up" /\ nav.ups < HistCap
       THEN [nav EXCEPT !.ups = @ + 1]
       ELSE IF history_index = 0
            THEN [phase |-> "up", t |-> Text(buf, len), ups |-> 1, downs |-> 0,
                  n0 |-> Len(history) - (IF scratch THEN 1 ELSE 0)]
            ELSE NoNav
  ELSE IF c = key_ctrl_n /\ nav.phase \in {"up", "down"} /\ nav.downs < nav.ups
       THEN [nav EXCEPT !.phase = "down", !.downs = @ + 1]
       ELSE NoNav

(***************************************************************************)
(* The calls of the history interface, made while no input() runs.         *)
(***************************************************************************)
HistoryAdd(line) ==
  /\ pc = "out"
  /\ Len(history) < HistCap
  /\ LET r == IF impl = "hpp" THEN add_to_history(history, history_max_len, line)
                              ELSE linenoiseHistoryAdd(history, history_max_len, line)
     IN /\ history' = r.history
        /\ ret' = [op |-> "add", ok |-> r.ok, text |-> line, n |-> 0,
                   was |-> Len(history),
                   rep |-> ret.op = "add" /\ ret.text = line]
  /\ added' = IF added.ok /\ Len(added.lines) <= MaxHistory
              THEN [added EXCEPT !.lines = Append(@, line)]
              ELSE NoAdded
  /\ out' = <<>>
  /\ tc' = <<>>
  /\ view' = NoView
  /\ rd' = NoRead
  /\ before' = before
  /\ last' = "add"
  /\ UNCHANGED <<impl, env, max_line, multi_line, hints, completion, cols, plen, history_max_len,
                 pc, buf, len, pos, oldpos, maxrows, history_index, cands, ci,
                 errno, tty, scratch, nav>>

HistorySetMaxLen(n) ==
  /\ pc = "out"
  /\ LET r == IF impl = "hpp" THEN set_history_max_size(history, history_max_len, n)
                              ELSE linenoiseHistorySetMaxLen(history, history_max_len, n)
     IN /\ history' = r.history
        /\ history_max_len' = r.max
        /\ ret' = [op |-> "set_max", ok |-> r.ok, text |-> <<>>, n |-> n,
                   was |-> Len(history),
                   rep |-> ret.op = "set_max" /\ ret.n = n]
        /\ added' = IF added.ok /\ added.lines = <<>> THEN added ELSE NoAdded
  /\ out' = <<>>
  /\ tc' = <<>>
  /\ view' = NoView
  /\ rd' = NoRead
  /\ before' = before
  /\ last' = "set_max"
  /\ UNCHANGED <<impl, env, max_line, multi_line, hints, completion, cols, plen,
                 pc, buf, len, pos, oldpos, maxrows, history_index, cands, ci,
                 errno, tty, scratch, nav>>

(***************************************************************************)
(* input(): edit() from its first line to its return.                      *)
(***************************************************************************)
\* input() on a terminal that is supported, enable_raw_mode succeeding, and
\* edit() up to its loop: the state is set up, the scratch slot is pushed and
\* the prompt is written (wok: that write succeeds; when it fails edit()
\* returns and input_raw leaves raw mode).
EditStart(wok) ==
  /\ pc = "out"
  /\ env.isatty
  /\ ~is_unsupported_term(env)
  /\ Len(history) < HistCap
  /\ LET e == enable_raw_mode(tty, env.isatty, TRUE, TRUE)
         d == disable_raw_mode(e.tty)
     IN IF wok THEN tty' = e.tty /\ tc' = e.tc
               ELSE tty' = d.tty /\ tc' = e.tc \o d.tc
  /\ LET r == IF impl = "hpp"
              THEN [history |-> Append(history, <<>>), ok |-> TRUE]
              ELSE linenoiseHistoryAdd(history, history_max_len, <<>>)
     IN /\ history' = r.history
        /\ scratch' = r.ok
  /\ added' = NoAdded
  /\ nav' = NoNav
  /\ errno' = errno
  /\ view' = NoView
  /\ rd' = NoRead
  /\ before' = [history |-> history, navigated |-> FALSE]
  /\ last' = "start"
  /\ IF wok
     THEN /\ pc' = "idle"
          /\ buf' = [FreshBuf EXCEPT ![0] = NUL]
          /\ out' = <<"prompt">>
          /\ ret' = NoRet
     ELSE /\ pc' = "out"
          /\ buf' = FreshBuf
          /\ out' = <<>>
          /\ ret' = [op |-> "input", ok |-> FALSE, text |-> <<>>, n |-> 0,
                     was |-> 0, rep |-> FALSE]
  /\ len' = 0
  /\ pos' = 0
  /\ oldpos' = 0
  /\ maxrows' = 0
  /\ history_index' = 0
  /\ cands' = <<>>
  /\ ci' = 0
  /\ UNCHANGED <<impl, env, max_line, multi_line, hints, completion, cols, plen, history_max_len>>

\* A call of input() that returns r without entering edit().
InputReturns(r, name) ==
  /\ pc' = "out"
  /\ ret' = [op |-> "input", ok |-> r.ok, text |-> r.text, n |-> 0, was |-> 0,
             rep |-> FALSE]
  /\ last' = name
  /\ view' = NoView
  /\ rd' = NoRead
  /\ before' = before
  /\ nav' = NoNav
  /\ added' = NoAdded
  /\ UNCHANGED <<impl, env, max_line, multi_line, hints, completion, cols, plen,
                 history, history_max_len, buf, len, pos, oldpos, maxrows,
                 history_index, cands, ci, errno, scratch>>

\* input() when stdin is not a terminal: input_no_tty reads the line.
InputNoTty(data) ==
  /\ pc = "out"
  /\ ~env.isatty
  /\ InputReturns(input_no_tty(data), "input_no_tty")
  /\ out' = <<>>
  /\ UNCHANGED <<tty>>
  /\ tc' = <<>>

\* input() on an unsupported terminal: the prompt is printed and fgets
\* reads the line.
InputUnsupported(data) ==
  /\ pc = "out"
  /\ env.isatty
  /\ is_unsupported_term(env)
  /\ InputReturns(input_unsupported(data), "input_unsupported")
  /\ out' = <<"prompt">>
  /\ UNCHANGED <<tty>>
  /\ tc' = <<>>

\* input_raw when enable_raw_mode fails: tcgetattr fails (~getok) or
\* tcsetattr fails (~setok).
InputRawFail(getok, setok) ==
  /\ pc = "out"
  /\ env.isatty
  /\ ~is_unsupported_term(env)
  /\ ~(getok /\ setok)
  /\ LET e == enable_raw_mode(tty, env.isatty, getok, setok)
     IN /\ tty' = e.tty
        /\ tc' = e.tc
  /\ InputReturns([ok |-> FALSE, text |-> <<>>], "enable_failed")
  /\ out' = <<>>

\* is_multi_line
is_multi_line == multi_line

\* set_multi_line(flag), called between two calls of input(); ret.ok holds
\* the flag handed in.
SetMultiLine(flag) ==
  /\ pc = "out"
  /\ multi_line' = IF impl = "hpp" THEN TRUE ELSE flag
  /\ ret' = [op |-> "set_multi_line", ok |-> flag, text |-> <<>>, n |-> 0, was |-> 0,
             rep |-> FALSE]
  /\ last' = "set_multi_line"
  /\ out' = <<>>
  /\ tc' = <<>>
  /\ view' = NoView
  /\ rd' = NoRead
  /\ before' = before
  /\ nav' = NoNav
  /\ added' = NoAdded
  /\ UNCHANGED <<impl, env, max_line, hints, completion, cols, plen, history,
                 history_max_len, pc, buf, len, pos, oldpos, maxrows, history_index,
                 cands, ci, errno, tty, scratch>>

\* The prompt is destroyed (prompt.hpp), or the process exits and
\* atexit_callback runs if it was registered (prompt.cpp): disable_raw_mode
\* is called once more.
Exit ==
  /\ pc = "out"
  /\ pc' = "gone"
  /\ LET d == IF impl = "hpp" \/ tty.atexit_registered
              THEN disable_raw_mode(tty) ELSE [tty |-> tty, tc |-> <<>>]
     IN /\ tty' = d.tty
        /\ tc' = d.tc
  /\ history' = IF impl = "cpp" /\ tty.atexit_registered THEN <<>> ELSE history
  /\ out' = <<>>
  /\ view' = NoView
  /\ rd' = NoRead
  /\ before' = before
  /\ last' = "exit"
  /\ nav' = NoNav
  /\ added' = NoAdded
  /\ UNCHANGED <<impl, env, max_line, multi_line, hints, completion, cols, plen,
                 history_max_len, buf, len, pos, oldpos, maxrows, history_index,
                 cands, ci, ret, errno, scratch>>

\* The name of the step in which the loop of edit() reads the byte c.
KeyName(c) ==
  CASE c = key_ctrl_c -> "ctrl_c"
    [] c = key_ctrl_d -> "ctrl_d"
    [] c = key_ctrl_p -> "up"
    [] c = key_ctrl_n -> "down"
    [] OTHER          -> "key"

\* One turn of the loop of edit(): the byte c is read and dispatched.  (Tab
\* with a completion callback registered is TabKey.)
KeyStep(c, wok) ==
  /\ pc = "idle"
  /\ ~(c = key_tab /\ completion)
  /\ Finish(Dispatch(Cur, c, wok), "idle", <<>>, 0)
  /\ last' = KeyName(c)
  /\ UNCHANGED <<impl, env, max_line, multi_line, hints, completion, cols, plen, history_max_len>>

Key(c, wok) ==
  /\ KeyStep(c, wok)
  /\ nav' = NoNav

\* The same turn, with the round trip of up and down steps recorded.
NavKey(c) ==
  /\ KeyStep(c, TRUE)
  /\ nav' = IF pc' = "idle" THEN NavStep(c) ELSE NoNav

\* A failing read in the loop of edit() that makes edit() return nothing.
ReadFailNoInput ==
  /\ pc = "idle"
  /\ Finish([Cur EXCEPT !.status = "none"], "idle", <<>>, 0)
  /\ nav' = NoNav
  /\ last' = "read_fail"
  /\ UNCHANGED <<impl, env, max_line, multi_line, hints, completion, cols, plen, history_max_len>>

\* read() returns 0 or -1 in the loop of edit(): the buffer is returned.
ReadFail ==
  /\ pc = "idle"
  /\ Finish([Cur EXCEPT !.status = "line", !.ub = ~Defined(buf, 0, len)], "idle", <<>>, 0)
  /\ nav' = NoNav
  /\ last' = "read_fail"
  /\ UNCHANGED <<impl, env, max_line, multi_line, hints, completion, cols, plen, history_max_len>>

\* Tab with a completion callback registered: complete_line up to its first
\* read.  cs is what the callback yields; g is the value of the int c that
\* complete_line returns without having assigned it when cs is empty (-1 in
\* the class, where c is initialised; never initialised in prompt.cpp).
TabKey(cs, g, wok) ==
  /\ pc = "idle"
  /\ completion
  /\ impl = "hpp" => g = -1
  /\ IF cs = <<>>
     THEN Finish(AfterComplete(Emit(Cur, "beep"), g, wok), "idle", <<>>, 0)
     ELSE Finish(ShowCompletion(Cur, cs, 0), "completing", cs, 0)
  /\ nav' = NoNav
  /\ last' = IF cs = <<>> THEN "tab_none" ELSE "tab"
  /\ UNCHANGED <<impl, env, max_line, multi_line, hints, completion, cols, plen, history_max_len>>

\* The name of the step in which complete_line reads the byte c.
CompleteName(c) ==
  CASE c = key_tab   -> "complete_tab"
    [] c = key_esc   -> "complete_esc"
    [] c = key_enter -> "complete_enter"
    [] c = CH_A      -> "complete_char"
    [] OTHER         -> "complete_key"

\* complete_line reads the byte c into the low byte of its int c and
\* switches on the int.  high: the other bytes of the int are zero, so that
\* the cases key_tab and key_esc can match; they are 0xff in the class (c is
\* initialised to -1) and indeterminate in prompt.cpp.
CompleteKey(c, high, wok) ==
  /\ pc = "completing"
  /\ impl = "hpp" => ~high
  /\ LET n == Len(cands)
     IN IF c = key_tab /\ high
        THEN LET i == (ci + 1) % (n + 1)
                 s == IF i = n THEN Emit(Cur, "beep") ELSE Cur
             IN Finish(ShowCompletion(s, cands, i), "completing", cands, i)
        ELSE IF c = key_esc /\ high
        THEN Finish(AfterComplete(IF ci < n THEN refresh(Cur) ELSE Cur, c, wok),
                    "idle", <<>>, 0)
        ELSE Finish(AfterComplete(CommitCompletion(Cur, cands, ci), c, wok),
                    "idle", <<>>, 0)
  /\ nav' = NoNav
  /\ last' = CompleteName(c)
  /\ UNCHANGED <<impl, env, max_line, multi_line, hints, completion, cols, plen, history_max_len>>

\* read() returns 0 or -1 inside complete_line, which returns -1.
CompleteReadFail ==
  /\ pc = "completing"
  /\ Finish(AfterComplete(Cur, -1, TRUE), "idle", <<>>, 0)
  /\ nav' = NoNav
  /\ last' = "complete_read_fail"
  /\ UNCHANGED <<impl, env, max_line, multi_line, hints, completion, cols, plen, history_max_len>>

\* handle_esc, called by the switch of edit() on key_esc: seq holds the bytes
\* the terminal delivers next (a read that returns 0 leaves its byte of seq
\* indeterminate, which is any byte here).
HandleEsc(seq) ==
  /\ pc = "esc1"
  /\ Finish(handle_esc(Cur, seq), "idle", <<>>, 0)
  /\ nav' = NoNav
  /\ last' = "esc"
  /\ UNCHANGED <<impl, env, max_line, multi_line, hints, completion, cols, plen, history_max_len>>

\* The byte sequences the terminal delivers after ESC: the sequences of the
\* keys, others, ones that end early and ones that are followed by a byte.
EscSeqs ==
  {<<>>, <<LBRACKET>>, <<CH_A, CH_A>>, <<LBRACKET, LETTER_C, CH_A>>,
   <<LETTER_O, LETTER_H, CH_A>>, <<CH_A, CH_A, CH_A>>}
    \cup {<<LBRACKET, b>> : b \in {LETTER_A, LETTER_B, LETTER_C, LETTER_D, LETTER_H,
                                    LETTER_F, DIGIT_3, CH_A}}
    \cup {<<LBRACKET, d, b>> : d \in {DIGIT_1, DIGIT_3, DIGIT_4}, b \in {TILDE, CH_A}}
    \cup {<<LETTER_O, b>> : b \in {LETTER_H, LETTER_F, LETTER_A}}

\* What complete_line of prompt.cpp may return for an empty candidate list.
Garbage == {-1, 0, CH_A, key_enter}

Next ==
  \/ \E line \in SessionLines : HistoryAdd(line)
  \/ \E n \in 0 .. SessionMaxHistory : HistorySetMaxLen(n)
  \/ \E wok \in BOOLEAN : EditStart(wok)
  \/ \E c \in SessionKeys, wok \in BOOLEAN : Key(c, wok)
  \/ ReadFail
  \/ \E cs \in CandLists, g \in Garbage, wok \in BOOLEAN : TabKey(cs, g, wok)
  \/ \E c \in SessionKeys, high \in BOOLEAN, wok \in BOOLEAN : CompleteKey(c, high, wok)
  \/ CompleteReadFail

Spec == Init /\ [][Next]_vars

(***************************************************************************)
(* The history interface alone: add and set-maximum calls on a history     *)
(* that starts empty.                                                      *)
(***************************************************************************)
InitHist ==
  /\ impl \in {"hpp", "cpp"}
  /\ max_line = SessionMaxLine
  /\ multi_line = FALSE
  /\ hints = FALSE
  /\ completion = FALSE
  /\ cols = MaxCols
  /\ plen = 2
  /\ history = <<>>
  /\ history_max_len = MaxHistory
  /\ pc = "out"
  /\ InitIdle
  /\ InitTty(Sane)
  /\ env = Xterm
  /\ scratch = FALSE
  /\ added = [ok |-> TRUE, lines |-> <<>>]

NextHist ==
  \/ \E line \in Lines : HistoryAdd(line)
  \/ \E n \in 0 .. MaxHistory : HistorySetMaxLen(n)

SpecHist == InitHist /\ [][NextHist]_vars

(***************************************************************************)
(* The editing operations alone, applied in any order to the empty line    *)
(* of a call that has just started.                                        *)
(***************************************************************************)
InitEdit ==
  /\ impl \in {"hpp", "cpp"}
  /\ max_line = EditMaxLine
  /\ multi_line \in BOOLEAN
  /\ hints \in BOOLEAN
  /\ completion = FALSE
  /\ cols \in Widths
  /\ plen \in PromptLens
  /\ history = << <<>> >>
  /\ history_max_len = MaxHistory
  /\ pc = "idle"
  /\ InitIdle
  /\ InitTty(Sane)
  /\ env = Xterm
  /\ scratch = TRUE
  /\ added = NoAdded

\* The operation named op has taken the line to s.
EditOp(op, s) ==
  /\ pc = "idle"
  /\ Finish(s, "idle", <<>>, 0)
  /\ nav' = NoNav
  /\ last' = op
  /\ UNCHANGED <<impl, env, max_line, multi_line, hints, completion, cols, plen, history_max_len>>

EdInsert(c, wok) == EditOp("insert", insert(Cur, c, wok))
EdMoveLeft == EditOp("move_left", move_left(Cur))
EdMoveRight == EditOp("move_right", move_right(Cur))
EdMoveHome == EditOp("move_home", move_home(Cur))
EdMoveEnd == EditOp("move_end", move_end(Cur))
EdDeleteNext == EditOp("delete_next_char", delete_next_char(Cur))
EdDeletePrevious == EditOp("delete_previous_char", delete_previous_char(Cur))
EdDeleteWord == EditOp("delete_previous_word", delete_previous_word(Cur))
EdTranspose == EditOp("transpose_characters", transpose_characters(Cur))
EdKillLine == EditOp("kill_line", kill_line(Cur))
EdKillEnd == EditOp("kill_end_of_line", kill_end_of_line(Cur))

NextEdit ==
  \/ \E c \in EditChars, wok \in BOOLEAN : EdInsert(c, wok)
  \/ EdMoveLeft
  \/ EdMoveRight
  \/ EdMoveHome
  \/ EdMoveEnd
  \/ EdDeleteNext
  \/ EdDeletePrevious
  \/ EdDeleteWord
  \/ EdTranspose
  \/ EdKillLine
  \/ EdKillEnd

SpecEdit == InitEdit /\ [][NextEdit]_vars

(***************************************************************************)
(* History navigation: calls in which the user types, steps up and down    *)
(* through the history and presses Enter, with adds between the calls.     *)
(***************************************************************************)
NavKeys == {CH_A, key_ctrl_p, key_ctrl_n, key_enter}

InitNav ==
  /\ Init
  /\ completion = FALSE

NextNav ==
  \/ \E line \in SessionLines \ {<<>>} : HistoryAdd(line)
  \/ EditStart(TRUE)
  \/ \E c \in NavKeys : NavKey(c)

SpecNav == InitNav /\ [][NextNav]_vars

(***************************************************************************)
(* The editing operations behind prompts of every width: shorter than the  *)
(* terminal is wide, exactly as wide, and wider.                           *)
(***************************************************************************)
WidePromptLens(c) == {2, c, c + 1}

InitWide ==
  /\ impl \in {"hpp", "cpp"}
  /\ max_line = EditMaxLine
  /\ multi_line \in BOOLEAN
  /\ hints \in BOOLEAN
  /\ completion = FALSE
  /\ cols \in Widths
  /\ plen \in WidePromptLens(cols)
  /\ history = << <<>> >>
  /\ history_max_len = MaxHistory
  /\ pc = "idle"
  /\ InitIdle
  /\ InitTty(Sane)
  /\ env = Xterm
  /\ scratch = TRUE
  /\ added = NoAdded

SpecWide == InitWide /\ [][NextEdit]_vars

(***************************************************************************)
(* Completion: one call of input() with a completion callback registered,  *)
(* from the start of its loop, in which the user types, presses Tab and    *)
(* answers the previews.                                                   *)
(***************************************************************************)
(***************************************************************************)
(* Escape sequences: one call of input() with a committed history entry,   *)
(* in which the user types, moves left and presses keys that send ESC      *)
(* sequences.                                                              *)
(***************************************************************************)
EscKeys == {CH_A, key_ctrl_b, key_esc}

InitEsc ==
  /\ impl \in {"hpp", "cpp"}
  /\ max_line = EditMaxLine
  /\ multi_line = FALSE
  /\ hints = FALSE
  /\ completion = FALSE
  /\ cols = MaxCols
  /\ plen = 2
  /\ history = << <<SPACE>>, <<>> >>
  /\ history_max_len = MaxHistory
  /\ pc = "idle"
  /\ InitIdle
  /\ InitTty(Sane)
  /\ env = Xterm
  /\ scratch = TRUE
  /\ added = NoAdded

NextEsc ==
  \/ \E c \in EscKeys : Key(c, TRUE)
  \/ \E seq \in EscSeqs : HandleEsc(seq)

SpecEsc == InitEsc /\ [][NextEsc]_vars

(***************************************************************************)
(* Recalling history entries: one call of input() with one committed       *)
(* entry, short or longer than the line may become, in which the user      *)
(* types, deletes, steps up and down and presses Enter.                    *)
(***************************************************************************)
RecallKeys == {CH_A, key_backspace, key_ctrl_p, key_ctrl_n, key_enter}

InitRecall ==
  /\ impl \in {"hpp", "cpp"}
  /\ max_line = EditMaxLine
  /\ multi_line = FALSE
  /\ hints = FALSE
  /\ completion = FALSE
  /\ cols = MaxCols
  /\ plen = 2
  /\ \E e \in {<<SPACE>>, As(EditMaxLine)} : history = <<e, <<>> >>
  /\ history_max_len = MaxHistory
  /\ pc = "idle"
  /\ InitIdle
  /\ InitTty(Sane)
  /\ env = Xterm
  /\ scratch = TRUE
  /\ added = NoAdded

NextRecall == \E c \in RecallKeys : Key(c, TRUE)

SpecRecall == InitRecall /\ [][NextRecall]_vars

CompleteTypeKeys == {CH_A, NUL, key_ctrl_b, key_esc}
CompleteKeys == {key_tab, key_esc, key_enter, CH_A}
\* What the callback yields here: the lists of the full model, and one whose
\* candidates all fit the line.
CycleCandLists == CandLists \cup {<<As(1), As(buflen)>>}

InitComplete ==
  /\ impl \in {"hpp", "cpp"}
  /\ max_line = SessionMaxLine
  /\ multi_line \in BOOLEAN
  /\ hints = FALSE
  /\ completion = TRUE
  /\ cols = MaxCols
  /\ plen = 2
  /\ history = << <<>> >>
  /\ history_max_len = MaxHistory
  /\ pc = "idle"
  /\ InitIdle
  /\ InitTty(Sane)
  /\ env = Xterm
  /\ scratch = TRUE
  /\ added = NoAdded

NextComplete ==
  \/ \E c \in CompleteTypeKeys : Key(c, TRUE)
  \/ \E cs \in CycleCandLists, g \in Garbage : TabKey(cs, g, TRUE)
  \/ \E c \in CompleteKeys, high \in BOOLEAN : CompleteKey(c, high, TRUE)
  \/ CompleteReadFail
  \/ \E seq \in EscSeqs : HandleEsc(seq)

SpecComplete == InitComplete /\ [][NextComplete]_vars

(***************************************************************************)
(* The ways a call ends: calls of input() without a completion callback,   *)
(* in which the user types and deletes, and which end by Enter, Ctrl-C,    *)
(* Ctrl-D or a failing read.                                               *)
(***************************************************************************)
CallKeys == {CH_A, key_ctrl_b, key_backspace, key_enter, key_ctrl_c, key_ctrl_d}

InitCall ==
  /\ Init
  /\ completion = FALSE

NextCall ==
  \/ EditStart(TRUE)
  \/ \E c \in CallKeys : Key(c, TRUE)
  \/ ReadFail

SpecCall == InitCall /\ [][NextCall]_vars

(***************************************************************************)
(* input() as a whole: the process starts on any terminal settings, with   *)
(* or without a terminal on stdin and with any TERM; calls read a line     *)
(* without the editor, fail to enter raw mode, or run the editor to one    *)
(* of its ends; the process exits.                                         *)
(***************************************************************************)
InputKeys == {CH_A, key_enter, key_ctrl_c, key_ctrl_d}

InitInput ==
  /\ impl \in {"hpp", "cpp"}
  /\ max_line = SessionMaxLine
  /\ multi_line = FALSE
  /\ hints = FALSE
  /\ completion = FALSE
  /\ cols = MaxCols
  /\ plen = 2
  /\ history = <<>>
  /\ history_max_len = SessionMaxHistory
  /\ pc = "out"
  /\ InitIdle
  /\ \E t \in Settings : InitTty(t)
  /\ env \in Envs
  /\ scratch = FALSE
  /\ added = NoAdded

NextInput ==
  \/ \E data \in StdinData : InputNoTty(data)
  \/ \E data \in StdinData : InputUnsupported(data)
  \/ \E getok, setok \in BOOLEAN : InputRawFail(getok, setok)
  \/ \E wok \in BOOLEAN : EditStart(wok)
  \/ \E c \in InputKeys, wok \in BOOLEAN : Key(c, wok)
  \/ ReadFail
  \/ \E flag \in BOOLEAN : SetMultiLine(flag)
  \/ Exit

SpecInput == InitInput /\ [][NextInput]_vars

(***************************************************************************)
(* The claims.                                                             *)
(***************************************************************************)
Distinct(seq) == \A i, j \in 1 .. Len(seq) : i # j => seq[i] # seq[j]

\* C1: starting from the empty line, after any sequence of insertions,
\* deletions, cursor moves and kills the cursor is between 0 and the length,
\* the length is at most the capacity (the buffer size minus one), and no
\* operation has read or written outside the buffer.
C1_CursorLengthCapacity ==
  /\ pc # "undefined"
  /\ pc = "idle" => 0 <= pos /\ pos <= len /\ len <= buflen

\* The line is full, the cursor has been moved back into it and the line has
\* been redrawn.
C1_FullLineCursorInside ==
  /\ pc = "idle" /\ len = buflen /\ pos = 1
  /\ last = "move_left" /\ out # <<>>

\* C2: an insertion into a line whose length equals the capacity changes
\* neither the text (its terminator included), the length nor the cursor,
\* writes nothing to the terminal and lets the call go on.
C2_InsertAtCapacityIsNoOp ==
  [][(pc = "idle" /\ len = buflen /\ last' = "insert")
       => /\ pc' = "idle"
          /\ buf' = buf /\ len' = len /\ pos' = pos
          /\ out' = <<>>
          /\ buf'[len'] = NUL]_vars

\* An insertion has been dropped: the last step is an insertion, the line is
\* full and nothing was written.
C2_InsertDropped ==
  pc = "idle" /\ last = "insert" /\ len = buflen /\ out = <<>>

\* C3: whenever the loop of edit() waits for the next byte, text[length]
\* lies inside the buffer and holds the terminator.
C3_TerminatorAtLength ==
  pc \in {"idle", "completing"} => len \in DOMAIN buf /\ buf[len] = NUL

\* C4: an add is rejected, and changes nothing, when the maximum is 0 or the
\* line equals the newest entry; any other add is accepted and puts the line
\* at the newest end.  The same line added twice in a row leaves the size as
\* it was after the first add.
C4_AddRejectsOrAppends ==
  [][ret'.op = "add" /\ last' = "add"
       => LET line == ret'.text
              rejected == \/ history_max_len = 0
                          \/ history # <<>> /\ history[Len(history)] = line
          IN /\ IF rejected
                THEN ~ret'.ok /\ history' = history
                ELSE ret'.ok /\ history' # <<>> /\ history'[Len(history')] = line
             /\ (ret.op = "add" /\ ret.text = line) => Len(history') = Len(history)]_vars

\* An add has been rejected because the line equals the newest entry.
C4_DuplicateRejected ==
  /\ ret.op = "add" /\ ~ret.ok /\ history_max_len > 0
  /\ history # <<>> /\ history[Len(history)] = ret.text

\* C5: max_size + 1 pairwise distinct lines added to an empty history leave
\* exactly the last max_size of them, in the order added.
C5_EvictsOldest ==
  (added.ok /\ Len(added.lines) = history_max_len + 1 /\ Distinct(added.lines))
    => history = Tail(added.lines)

\* MaxHistory + 1 distinct lines have been added under the maximum MaxHistory.
C5_OneMoreThanMax ==
  /\ added.ok /\ history_max_len = MaxHistory
  /\ Len(added.lines) = MaxHistory + 1 /\ Distinct(added.lines)
  /\ ret.op = "add" /\ ret.ok

\* C6: while no input() is in progress the history holds at most max_size
\* entries (none when max_size is 0).
C6_SizeWithinMax ==
  pc = "out" => Len(history) <= history_max_len

\* C7: while no input() is in progress no two neighbouring entries of the
\* history are equal.
C7_NoNeighbouringDuplicates ==
  pc = "out" => \A i \in 1 .. Len(history) - 1 : history[i] # history[i + 1]

\* C8: from the scratch slot with the text T in the line, N steps up followed
\* by N steps down (N at most the number of committed entries) leave T in
\* the line.
C8_RoundTripRestores ==
  (pc = "idle" /\ nav.phase = "down" /\ nav.downs = nav.ups /\ nav.ups <= nav.n0)
    => Text(buf, len) = nav.t

\* C9: when input() has returned, the scratch slot it pushed is no longer in
\* the history.
C9_ScratchGoneOnReturn ==
  (pc = "out" /\ ret.op = "input") => ~scratch

\* C10: a call that sets the maximum to 0 leaves the history empty, and an
\* add made after it is rejected and leaves the history empty.
C10_ZeroClears ==
  [][/\ (ret'.op = "set_max" /\ last' = "set_max" /\ ret'.n = 0) => history' = <<>>
     /\ (ret.op = "set_max" /\ ret.n = 0 /\ ret'.op = "add" /\ last' = "add")
          => ~ret'.ok /\ history' = <<>>]_vars

\* C11: a call that sets the maximum to n > 0 keeps exactly the newest n
\* entries, in their order, when the history holds more than n, leaves the
\* entries as they are otherwise, and makes n the maximum.
C11_SetMaxKeepsNewest ==
  [][(ret'.op = "set_max" /\ last' = "set_max" /\ ret'.n > 0)
       => LET n == ret'.n
              k == Len(history)
          IN /\ history_max_len' = n
             /\ history' = IF n < k THEN SubSeq(history, k - n + 1, k) ELSE history]_vars

\* A call has trimmed a history of more than n entries to n > 0 entries.
C11_Trimmed ==
  /\ ret.op = "set_max" /\ ret.n > 0 /\ ret.was > ret.n
  /\ Len(history) = ret.n /\ history_max_len = ret.n

\* C12: the second of two calls in a row that set the same maximum changes
\* neither the entries nor the maximum.
C12_SetMaxIdempotent ==
  [][(ret.op = "set_max" /\ ret'.op = "set_max" /\ last' = "set_max" /\ ret'.n = ret.n)
       => history' = history /\ history_max_len' = history_max_len]_vars

\* The same maximum n has been set twice in a row, the second call finding
\* exactly n entries.
C12_SetTwice ==
  /\ ret.op = "set_max" /\ ret.rep /\ ret.n > 0
  /\ ret.was = ret.n /\ Len(history) = ret.n /\ history_max_len = ret.n

\* The number of bells in what a step wrote.
Beeps(o) == Cardinality({i \in 1 .. Len(o) : o[i] = "beep"})

\* The sequence seq without its element i.
RemoveAt(seq, i) == SubSeq(seq, 1, i - 1) \o SubSeq(seq, i + 1, Len(seq))

\* The sequence seq with x put in after its first i elements.
InsertAt(seq, i, x) == SubSeq(seq, 1, i) \o <<x>> \o SubSeq(seq, i + 1, Len(seq))

\* C13: Tab with a callback that yields no candidate writes one bell, changes
\* neither the text, the length nor the cursor, and leaves the loop of edit()
\* waiting for the next key.
C13_NoCandidatesBellAndContinue ==
  [][(pc = "idle" /\ last' = "tab_none")
       => /\ pc' = "idle"
          /\ buf' = buf /\ len' = len /\ pos' = pos
          /\ Beeps(out') = 1]_vars

\* C14: cycling starts at index 0; each further Tab keeps cycling, moves the
\* index i to (i + 1) mod (N + 1), and writes a bell exactly when the new
\* index is N.
C14_TabAdvancesIndex ==
  [][/\ (pc = "idle" /\ pc' = "completing") => ci' = 0
     /\ (pc = "completing" /\ last' = "complete_tab")
          => /\ pc' = "completing"
             /\ cands' = cands
             /\ ci' = (ci + 1) % (Len(cands) + 1)
             /\ Beeps(out') = IF ci' = Len(cands) THEN 1 ELSE 0]_vars

\* C15: whenever complete_line waits for the next key, the text, the length
\* and the cursor are what they were before the step (and so what they were
\* when Tab was pressed).
C15_CyclingKeepsLine ==
  [][pc' = "completing"
       => /\ Text(buf', len') = Text(buf, len)
          /\ len' = len /\ pos' = pos]_vars

\* C16: Escape during cycling leaves the text, the length and the cursor as
\* they were and is consumed: the loop of edit() waits for a fresh key, not
\* for the tail of an escape sequence.
C16_EscapeConsumed ==
  [][(pc = "completing" /\ last' = "complete_esc")
       => /\ pc' = "idle"
          /\ Text(buf', len') = Text(buf, len)
          /\ len' = len /\ pos' = pos]_vars

\* C17: Enter or a printable byte during cycling, the selected candidate (if
\* any) being no longer than the capacity, makes the candidate the line with
\* the cursor at its end, or leaves the line as it is at index N, and is then
\* dispatched once: Enter returns that line, the byte is inserted at the
\* cursor when there is room.
C17_OtherKeyCommitsAndIsDispatched ==
  [][(/\ pc = "completing"
      /\ last' \in {"complete_enter", "complete_char"}
      /\ ci < Len(cands) => Len(cands[ci + 1]) <= buflen)
       => LET base == IF ci < Len(cands) THEN cands[ci + 1] ELSE Text(buf, len)
              at   == IF ci < Len(cands) THEN Len(base) ELSE pos
          IN IF last' = "complete_enter"
             THEN pc' = "out" /\ ret'.ok /\ ret'.text = base
             ELSE /\ pc' = "idle"
                  /\ IF Len(base) < buflen
                     THEN /\ Text(buf', len') = InsertAt(base, at, CH_A)
                          /\ pos' = at + 1
                     ELSE /\ Text(buf', len') = base
                          /\ pos' = at]_vars

\* C18: a read that fails while complete_line waits for a key makes input()
\* return the line text[0 .. length) as it stands, no candidate being
\* committed.
C18_ReadFailureReturnsLine ==
  [][(pc = "completing" /\ last' = "complete_read_fail")
       => /\ pc' = "out"
          /\ ret'.op = "input" /\ ret'.ok
          /\ ret'.text = Text(buf, len)]_vars

\* A call has returned its one-byte line because a read failed during
\* cycling.
C18_LineReturnedFromCycling ==
  /\ pc = "out" /\ last = "complete_read_fail"
  /\ ret.op = "input" /\ ret.ok /\ ret.text = As(1)

\* C18 as stated: a read that fails while complete_line waits for a key
\* makes input() return no input.
C18_ReadFailureReturnsNoInput ==
  [][(pc = "completing" /\ last' = "complete_read_fail")
       => /\ pc' = "out"
          /\ ret'.op = "input" /\ ~ret'.ok]_vars

\* C19: a read that fails while the loop of edit() waits for a key makes
\* input() return the line text[0 .. length), whatever the line is.
C19_ReadFailureReturnsLine ==
  [][(pc = "idle" /\ last' = "read_fail")
       => /\ pc' = "out"
          /\ ret'.op = "input" /\ ret'.ok
          /\ ret'.text = Text(buf, len)]_vars

\* A call has returned the empty line because a read failed.
C19_EmptyLineReturned ==
  /\ pc = "out" /\ last = "read_fail"
  /\ ret.op = "input" /\ ret.ok /\ ret.text = <<>>

\* C20: Ctrl-C makes input() return no input with errno set to EAGAIN;
\* Ctrl-D on the empty line makes it return no input with errno as it was;
\* Ctrl-D on any other line deletes the byte under the cursor (if any) and
\* the call goes on; no step but Ctrl-C sets errno.
C20_InterruptAndEndOfFile ==
  [][/\ (pc = "idle" /\ last' = "ctrl_c")
          => pc' = "out" /\ ret'.op = "input" /\ ~ret'.ok /\ errno' = "EAGAIN"
     /\ (pc = "idle" /\ last' = "ctrl_d" /\ len = 0)
          => pc' = "out" /\ ret'.op = "input" /\ ~ret'.ok /\ errno' = errno
     /\ (pc = "idle" /\ last' = "ctrl_d" /\ len > 0)
          => /\ pc' = "idle"
             /\ pos' = pos
             /\ Text(buf', len') = IF pos < len THEN RemoveAt(Text(buf, len), pos + 1)
                                                ELSE Text(buf, len)
     /\ last' # "ctrl_c" => errno' = errno]_vars

\* A call has ended by Ctrl-D on the empty line with errno clear.
C20_EndOfFileWithoutErrno ==
  /\ pc = "out" /\ last = "ctrl_d"
  /\ ret.op = "input" /\ ~ret.ok /\ errno = ""

\* C21: a call that has put the terminal into raw mode makes exactly one
\* tcsetattr call before it returns, whichever way edit() ends, and that call
\* sets the settings snapshotted when raw mode was entered; while the call
\* goes on nothing is restored; between calls raw mode is off and the
\* terminal has the settings it started with; disable_raw_mode called with
\* raw mode off (at the exit, after a call that ended or after an enable that
\* failed) makes no tcsetattr call.
C21_RawModeRestoredOnce ==
  /\ [](pc = "out" => ~tty.raw_mode /\ tty.termios \in Settings)
  /\ [](pc \in {"idle", "completing", "esc1"}
          => tty.raw_mode /\ tty.termios = raw(tty.original_termios))
  /\ [][/\ (pc \notin {"out", "gone"} /\ pc' = "out")
            => /\ tc' = <<[termios |-> tty.original_termios, ok |-> TRUE]>>
               /\ tty'.termios = tty.original_termios
        /\ (pc = "out" /\ last' = "start" /\ pc' = "out")
            => /\ tc' = <<[termios |-> raw(tty.termios), ok |-> TRUE],
                          [termios |-> tty.termios, ok |-> TRUE]>>
               /\ tty'.termios = tty.termios
        /\ (pc \notin {"out", "gone"} /\ pc' \notin {"out", "gone"}) => tc' = <<>>
        /\ last' = "exit" => tc' = <<>> /\ tty'.termios = tty.termios]_vars

\* A call on a terminal without echo has ended by Enter and has restored
\* those settings.
C21_RestoredAfterEnter ==
  /\ pc = "out" /\ last = "key" /\ ret.op = "input" /\ ret.ok
  /\ tc = <<[termios |-> NoEcho, ok |-> TRUE]>>
  /\ tty.termios = NoEcho

\* C22: when enable_raw_mode fails, input() returns a line read from stdin
\* without the editor (stdin holding one), not "no input".
C22_EnableFailureDegrades ==
  [][last' = "enable_failed"
       => \E data \in StdinData \ {<<>>} :
            ret'.ok /\ ret'.text = input_no_tty(data).text]_vars

\* TERM is one of the values that name dumb, cons25 or emacs in any case.
Denylisted ==
  /\ env.has_term
  /\ env.TERM \in {<<100, 117, 109, 98>>, <<68, 85, 77, 66>>,
                   <<69, 109, 97, 99, 115>>, <<99, 111, 110, 115, 50, 53>>}

\* C23: a call of input() tries to enter raw mode, and runs the editor, only
\* when stdin is a terminal and TERM is not denylisted, and then it always
\* tries; when stdin is not a terminal or TERM is denylisted no step calls
\* tcsetattr, changes the terminal or changes the history.
C23_EditorOnlyOnSupportedTerminal ==
  [][/\ (last' \in {"start", "enable_failed"} \/ pc' \in {"idle", "completing", "esc1"})
          => env.isatty /\ ~Denylisted
     /\ last' \in {"input_no_tty", "input_unsupported"}
          => ~env.isatty \/ Denylisted
     /\ (~env.isatty \/ Denylisted)
          => tc' = <<>> /\ tty' = tty /\ history' = history /\ scratch' = scratch]_vars

\* With TERM=DUMB on a terminal a line has been read without the editor.
C23_UpperCaseTermBypasses ==
  /\ pc = "out" /\ last = "input_unsupported"
  /\ env.isatty /\ env.TERM = <<68, 85, 77, 66>>
  /\ ret.op = "input" /\ ret.ok /\ ret.text = As(1)
  /\ tc = <<>> /\ history = <<>>

\* The index w that delete_previous_word stops at in the text txt with the
\* cursor at p: txt(w .. q] holds no space and txt(q .. p] only spaces, for a
\* q that is 0 or has a non-space before it, and w is 0 or has a space before
\* it.
WordStart(txt, p) ==
  CHOOSE w \in 0 .. p :
    \E q \in w .. p :
      /\ \A i \in w + 1 .. q : txt[i] # SPACE
      /\ \A i \in q + 1 .. p : txt[i] = SPACE
      /\ q = 0 \/ txt[q] # SPACE
      /\ w = 0 \/ txt[w] = SPACE

\* C24: delete_previous_word removes the bytes [w, cursor) of the text, w
\* being the start of the word left of the cursor; the bytes before w and the
\* bytes from the old cursor on are kept in order, the length decreases by
\* cursor - w and the cursor becomes w.
C24_DeletePreviousWord ==
  [][(pc = "idle" /\ last' = "delete_previous_word")
       => LET txt == Text(buf, len)
              w   == WordStart(txt, pos)
          IN /\ Text(buf', len') = SubSeq(txt, 1, w) \o SubSeq(txt, pos + 1, len)
             /\ len' = len - (pos - w)
             /\ pos' = w]_vars

\* "a a" with the cursor at its end has become "a " with the cursor at 2.
C24_LastWordDeleted ==
  /\ pc = "idle" /\ last = "delete_previous_word"
  /\ Text(buf, len) = <<CH_A, SPACE>> /\ pos = 2

\* C25: what refresh_single_line has rendered is a contiguous slice of the
\* text, view.start bytes being dropped before it, that fits the terminal
\* together with the prompt; the column it puts the cursor at is the prompt
\* length plus the cursor less the dropped bytes, lies inside the slice or
\* just after it, and is less than the terminal width.
C25_SingleLineWindow ==
  view.mode = "single"
    => /\ view.start \in 0 .. len
       /\ view.start + Len(view.slice) <= len
       /\ view.slice = SubSeq(Text(buf, len), view.start + 1, view.start + Len(view.slice))
       /\ plen + Len(view.slice) <= cols
       /\ view.col = plen + (pos - view.start)
       /\ pos - view.start \in 0 .. Len(view.slice)
       /\ view.col < cols

\* A line of three bytes with the cursor at its end has been rendered on a
\* terminal four columns wide behind a prompt of two: two bytes are dropped.
C25_WindowSlid ==
  /\ view.mode = "single" /\ cols = 4 /\ plen = 2
  /\ len = 3 /\ pos = 3
  /\ view.start = 2 /\ Len(view.slice) = 1 /\ view.col = 3

\* C27: with a hints callback registered, a refresh appends
\* min(hint length, cols - (plen + len)) bytes of the hint, and neither hint
\* bytes nor a styling sequence when plen + len >= cols.
C27_HintWithinBudget ==
  (view.mode # "none" /\ hints)
    => LET h == hints_callback(Text(buf, len))
           n == IF h.some THEN Len(h.value) ELSE 0
       IN IF plen + len >= cols
          THEN view.hint.text = <<>> /\ ~view.hint.style
          ELSE /\ Len(view.hint.text) = Min(n, cols - (plen + len))
               /\ view.hint.text = SubSeq(h.value, 1, Len(view.hint.text))

\* A hint wider than the room right of the line has been cut to that room.
C27_HintTruncated ==
  /\ view.mode # "none" /\ hints /\ len = 1
  /\ plen + len < cols
  /\ Len(view.hint.text) = cols - (plen + len)
  /\ Len(hints_callback(Text(buf, len)).value) > cols - (plen + len)

\* C26: after set_multi_line(flag), is_multi_line() is flag (so that
\* refresh, which asks the same member, uses the single-line renderer after
\* set_multi_line(false)).
C26_SetMultiLineSetsFlag ==
  [][last' = "set_multi_line" => is_multi_line' = ret'.ok]_vars

\* The insert that the step has made: it had room, and the call goes on.
Inserted ==
  /\ pc = "idle" /\ last' = "insert" /\ len < buflen /\ pc' = "idle"

\* What an insert below capacity does to the line: some byte c is put at the
\* cursor, the bytes right of it move one place, cursor and length grow by one.
InsertedAtCursor ==
  /\ \E c \in EditChars : Text(buf', len') = InsertAt(Text(buf, len), pos, c)
  /\ len' = len + 1
  /\ pos' = pos + 1

\* C29: an insert below capacity puts the byte at the cursor; it writes that
\* byte alone, without a refresh, iff the cursor was at the end, the mode is
\* single-line, no hints callback is registered and prompt and new line
\* together are shorter than the terminal is wide; otherwise it makes one
\* refresh.
C29_InsertFastPath ==
  [][Inserted
       => /\ InsertedAtCursor
          /\ IF pos = len /\ ~multi_line /\ ~hints /\ plen + len + 1 < cols
             THEN out' = <<"byte">>
             ELSE out' \in {<<"refresh">>, <<"refresh_failed">>}]_vars

\* A byte has been written alone after the only byte of the line, the row
\* having room for more.
C29_ByteWrittenAlone ==
  /\ pc = "idle" /\ last = "insert" /\ out = <<"byte">>
  /\ len = 2 /\ pos = 2 /\ plen + len < cols

\* C29 as stated: the byte is written alone iff, with the other conditions,
\* prompt and new line fit the terminal width.
C29_InsertFastPathWhenFits ==
  [][Inserted
       => /\ InsertedAtCursor
          /\ IF pos = len /\ ~multi_line /\ ~hints /\ plen + len + 1 <= cols
             THEN out' = <<"byte">>
             ELSE out' \in {<<"refresh">>, <<"refresh_failed">>}]_vars

C28_NavigationClampsOrLoads ==
  /\ [](pc = "idle" => history_index >= 0 /\ (history_index = 0 \/ history_index < Len(history)))
  /\ [][(pc = "idle" /\ pc' = "idle" /\ last' \in {"up", "down"})
          => LET idx == history_index + (IF last' = "up" THEN 1 ELSE -1)
             IN IF Len(history) < 2 \/ idx < 0 \/ idx >= Len(history)
                THEN /\ Text(buf', len') = Text(buf, len)
                     /\ len' = len /\ pos' = pos
                     /\ history_index' = history_index
                     /\ out' = <<>>
                ELSE /\ history_index' = idx
                     /\ Text(buf', len') = history'[Len(history') - idx]
                     /\ pos' = len'
                     /\ out' = <<"refresh">>]_vars

\* C31: transpose with 0 < cursor < length swaps the byte left of the cursor
\* with the byte under it, keeps the length and every other byte, and
\* advances the cursor by one unless the cursor is on the last byte; with the
\* cursor at 0 or at the end it changes nothing.
C31_Transpose ==
  [][(pc = "idle" /\ last' = "transpose_characters")
       => LET txt == Text(buf, len)
          IN IF 0 < pos /\ pos < len
             THEN /\ len' = len
                  /\ Text(buf', len') =
                       [i \in 1 .. len |-> IF i = pos THEN txt[pos + 1]
                                           ELSE IF i = pos + 1 THEN txt[pos]
                                           ELSE txt[i]]
                  /\ pos' = IF pos = len - 1 THEN pos ELSE pos + 1
             ELSE /\ buf' = buf
                  /\ len' = len
                  /\ pos' = pos]_vars

\* "a a" with the cursor on its last byte has become "aa " and the cursor
\* has stayed on the last byte.
C31_LastTwoSwapped ==
  /\ pc = "idle" /\ last = "transpose_characters"
  /\ Text(buf, len) = <<CH_A, CH_A, SPACE>> /\ pos = 2

\* C32: delete_left with cursor > 0 removes the byte left of the cursor and
\* decrements cursor and length; delete_right with cursor < length removes
\* the byte under the cursor, keeps the cursor and decrements the length; the
\* other bytes keep their order; delete_left at cursor 0 and delete_right at
\* the end change nothing.
C32_DeleteLeftRight ==
  [][/\ (pc = "idle" /\ last' = "delete_previous_char")
          => IF pos > 0
             THEN /\ Text(buf', len') = RemoveAt(Text(buf, len), pos)
                  /\ pos' = pos - 1
                  /\ len' = len - 1
             ELSE buf' = buf /\ len' = len /\ pos' = pos
     /\ (pc = "idle" /\ last' = "delete_next_char")
          => IF pos < len
             THEN /\ Text(buf', len') = RemoveAt(Text(buf, len), pos + 1)
                  /\ pos' = pos
                  /\ len' = len - 1
             ELSE buf' = buf /\ len' = len /\ pos' = pos]_vars

\* Backspace has left " a" with the cursor between its two bytes.
C32_MiddleByteDeleted ==
  /\ pc = "idle" /\ last = "delete_previous_char"
  /\ Text(buf, len) = <<SPACE, CH_A>> /\ pos = 1

\* The operations of C33, by the names the steps carry.
MoveOps == {"move_left", "move_right", "move_home", "move_end"}
GuardedOps == MoveOps \cup {"delete_previous_char", "delete_next_char"}
AlwaysRefreshing == {"delete_previous_word", "kill_line", "kill_end_of_line"}
EditOps == GuardedOps \cup AlwaysRefreshing \cup {"transpose_characters"}

\* The step has changed the text, the length or the cursor.
LineChanged == Text(buf', len') # Text(buf, len) \/ len' # len \/ pos' # pos

\* C33 (as stated): an edit operation writes one refresh when it has changed
\* the text or the cursor and nothing when it has not; the move operations
\* change neither text nor length.
C33_RefreshOnlyOnChange ==
  [][(pc = "idle" /\ last' \in EditOps)
       => /\ out' = IF LineChanged THEN <<"refresh">> ELSE <<>>
          /\ last' \in MoveOps => Text(buf', len') = Text(buf, len) /\ len' = len]_vars

\* C33 (amended): the moves, delete_previous_char and delete_next_char write
\* one refresh when they have changed the text or the cursor and nothing
\* otherwise; transpose writes one refresh exactly when 0 < cursor < length;
\* delete_previous_word, kill_line and kill_end_of_line always write exactly
\* one refresh; no operation writes anything else; the moves change neither
\* text nor length.
C33_RefreshPerOperation ==
  [][(pc = "idle" /\ last' \in EditOps)
       => /\ last' \in GuardedOps
               => out' = IF LineChanged THEN <<"refresh">> ELSE <<>>
          /\ last' = "transpose_characters"
               => out' = IF 0 < pos /\ pos < len THEN <<"refresh">> ELSE <<>>
          /\ last' \in AlwaysRefreshing => out' = <<"refresh">>
          /\ last' \in MoveOps => Text(buf', len') = Text(buf, len) /\ len' = len]_vars

\* kill_line has redrawn a line that was empty and into which nothing had
\* been typed.
C33_EmptyLineRedrawn ==
  /\ pc = "idle" /\ last = "kill_line"
  /\ out = <<"refresh">>
  /\ len = 0 /\ buf = [FreshBuf EXCEPT ![0] = NUL]

\* C34 (as stated): kill_end_of_line keeps the bytes left of the cursor, sets
\* the length to the cursor and leaves the cursor; kill_line removes only the
\* bytes left of the cursor, keeps the bytes from the cursor on as the new
\* text and sets the cursor to 0.
C34_KillToStartKeepsTail ==
  [][/\ (pc = "idle" /\ last' = "kill_end_of_line")
          => /\ Text(buf', len') = SubSeq(Text(buf, len), 1, pos)
             /\ len' = pos
             /\ pos' = pos
     /\ (pc = "idle" /\ last' = "kill_line")
          => /\ Text(buf', len') = SubSeq(Text(buf, len), pos + 1, len)
             /\ len' = len - pos
             /\ pos' = 0]_vars

\* C34 (amended): kill_end_of_line keeps the bytes left of the cursor, sets
\* the length to the cursor and leaves the cursor; kill_line empties the
\* line, the bytes right of the cursor included: length and cursor become 0.
C34_KillLineEmpties ==
  [][/\ (pc = "idle" /\ last' = "kill_end_of_line")
          => /\ Text(buf', len') = SubSeq(Text(buf, len), 1, pos)
             /\ len' = pos
             /\ pos' = pos
     /\ (pc = "idle" /\ last' = "kill_line")
          => /\ Text(buf', len') = <<>>
             /\ len' = 0
             /\ buf'[0] = NUL
             /\ pos' = 0]_vars

\* kill_line has emptied a line that held at least two bytes.
C34_TypedLineEmptied ==
  /\ pc = "idle" /\ last = "kill_line"
  /\ len = 0 /\ pos = 0 /\ buf[0] = NUL /\ buf[1] = CH_A

\* C35: a multi-line refresh writes the newline exactly when the cursor is at
\* the end of the text and prompt length + cursor is a positive multiple of
\* the terminal width, and then counts one row more, in the rows used and in
\* maxrows; maxrows never decreases during a call and oldpos equals the
\* cursor after every multi-line refresh.
C35_MultiLineNewline ==
  /\ [](view.mode = "multi"
          => /\ view.newline <=> (pos = len /\ plen + pos > 0 /\ (plen + pos) % cols = 0)
             /\ view.rows = (plen + len + cols - 1) \div cols + (IF view.newline THEN 1 ELSE 0)
             /\ maxrows >= view.rows
             /\ oldpos = pos)
  /\ [][(pc = "idle" /\ pc' = "idle") => maxrows' >= maxrows]_vars

\* The step has taken the line, the navigation index, the history and the
\* terminal where the operation that yields s takes them.
Lands(s) ==
  /\ buf' = s.buf /\ len' = s.len /\ pos' = s.pos
  /\ history_index' = s.history_index
  /\ history' = s.history
  /\ out' = s.out

\* The operation the sequence q stands for, applied to the current state; the
\* state itself for a sequence that stands for none.
EscTarget(q) ==
  CASE q = <<LBRACKET, LETTER_A>> -> edit_history_next(Cur, FALSE)
    [] q = <<LBRACKET, LETTER_B>> -> edit_history_next(Cur, TRUE)
    [] q = <<LBRACKET, LETTER_C>> -> move_right(Cur)
    [] q = <<LBRACKET, LETTER_D>> -> move_left(Cur)
    [] q \in {<<LBRACKET, LETTER_H>>, <<LETTER_O, LETTER_H>>} -> move_home(Cur)
    [] q \in {<<LBRACKET, LETTER_F>>, <<LETTER_O, LETTER_F>>} -> move_end(Cur)
    [] q = <<LBRACKET, DIGIT_3, TILDE>> -> delete_next_char(Cur)
    [] q = <<LBRACKET, DIGIT_1, TILDE>> /\ impl = "hpp" -> move_home(Cur)
    [] q = <<LBRACKET, DIGIT_4, TILDE>> /\ impl = "hpp" -> move_end(Cur)
    [] OTHER -> Cur

\* C36: after ESC the decoder reads two more bytes, three when the first is
\* '[' and the second a digit; ESC [ A / B step to the previous / next history
\* entry, ESC [ C / D move right / left, ESC [ H and ESC O H move home,
\* ESC [ F and ESC O F move to the end, ESC [ 3 ~ deletes the byte under the
\* cursor (with prompt.hpp ESC [ 1 ~ and ESC [ 4 ~ move home and to the
\* end); every other sequence changes neither the text, the length, the
\* cursor nor the navigation index.
C36_EscapeDecoding ==
  [][(pc = "esc1" /\ last' = "esc" /\ ~rd'.failed)
       => LET q == rd'.bytes
          IN /\ Len(q) = IF q[1] = LBRACKET /\ q[2] \in 48 .. 57 THEN 3 ELSE 2
             /\ Lands(EscTarget(q))
             /\ EscTarget(q) = Cur
                  => /\ Text(buf', len') = Text(buf, len)
                     /\ len' = len /\ pos' = pos
                     /\ history_index' = history_index]_vars

\* ESC [ 3 ~ has deleted one of two bytes.
C36_DeleteKeyDecoded ==
  /\ pc = "idle" /\ last = "esc"
  /\ rd = [bytes |-> <<LBRACKET, DIGIT_3, TILDE>>, failed |-> FALSE]
  /\ out = <<"refresh">> /\ len = 1

\* C37: a call of input() that ends with Enter and in which no step through
\* the history was made leaves the history as it was when the call began,
\* also when it was full and when its newest entry was empty.
C37_CallKeepsCommittedHistory ==
  (pc = "out" /\ ret.op = "input" /\ ret.ok /\ last = "key" /\ ~before.navigated)
    => history = before.history

\* C38: a call of input() that ends with Enter leaves the history as it was
\* when the call began, whatever was typed, deleted and stepped through in
\* between: the steps through the history overwrite the scratch slot only.
C38_NavigationKeepsCommitted ==
  /\ [](pc = "out" /\ ret.op = "input" /\ ret.ok /\ last = "key"
          => history = before.history)
  /\ [][(pc = "idle" /\ pc' = "idle" /\ last' \in {"up", "down"} /\ scratch)
          => SubSeq(history', 1, Len(history') - 1) = SubSeq(history, 1, Len(history) - 1)]_vars

\* The line of length l with the cursor at p fits the buffer b: the cursor is
\* inside the line, the line inside the capacity, and b holds l bytes before
\* its terminator.
Fits(b, l, p) ==
  /\ 0 <= p /\ p <= l /\ l <= buflen
  /\ l <= strlen(b)

\* C39: committing a completion candidate and recalling a history entry keep
\* 0 <= cursor <= length <= capacity, whatever the length of the candidate or
\* of the entry: the text is cut to fit, and the length is not greater than
\* the number of bytes stored in the buffer.
C39_CommitAndRecallFit ==
  [][/\ (/\ pc = "completing"
         /\ last' \in {"complete_enter", "complete_char", "complete_key"}
         /\ ci < Len(cands))
          => LET s == CommitCompletion(Cur, cands, ci)
             IN Fits(s.buf, s.len, s.pos)
     /\ (/\ pc = "idle" /\ pc' = "idle"
         /\ last' \in {"up", "down"}
         /\ history_index' # history_index)
          => Fits(buf', len', pos')]_vars

\* C40: a single-line refresh ends and renders only bytes of the text, also
\* behind a prompt as wide as the terminal or wider: the loops that slide
\* its window take neither the cursor nor the length of the window below 0
\* and do not move the start of the window past the cursor.
C40_WindowStaysInsideText ==
  /\ [](pc # "undefined")
  /\ [](view.mode = "single"
          => /\ ~Wrapped(view.wpos) /\ ~Wrapped(view.wlen)
             /\ view.start <= pos
             /\ view.start + view.wlen <= len
             /\ view.slice = SubSeq(Text(buf, len), view.start + 1, view.start + view.wlen))

====
